---- MODULE Spec2Model ----
(***************************************************************************)
(* State-machine model of the virtual titration lab                        *)
(* (client/src/components/VirtualLab/VirtualLabApp.tsx), Acid-Base          *)
(* Titration experiment.                                                    *)
(*                                                                          *)
(* The component is a React function component.  Every handler and every    *)
(* scheduled callback (requestAnimationFrame, setTimeout, setInterval) is   *)
(* a closure over the state values of the render in which it was created.   *)
(* User-event handlers are re-created on every render, so they read the     *)
(* current state.  Scheduled callbacks keep the values of the render in     *)
(* which the handler that scheduled them ran: these captured values are     *)
(* fields of the records in animationLoops, settleTimers and dropTimers.     *)
(* Functional updates (setX(prev => ...)) act on the current state.         *)
(*                                                                          *)
(* Units: volumes and amounts in microlitres (1 mL = 1000), pH in 1/1000,   *)
(* molarity in 1e-6 mol/L, moles in 1e-7 mol, colour intensity in 1/1000.   *)
(* Equipment positions (x, y) are not part of this model.                   *)
(***************************************************************************)
EXTENDS Integers, Sequences, FiniteSets, TLC

\* ---------------------------------------------------------------- bounds
\* Drops (equipment or chemical) the user makes in one behaviour.
MaxDrops == 3
\* Animation frames per 8000 ms cycle after the first one: frame k runs at
\* progress k / Frames.
Frames == 2
\* Titration starts whose callbacks may be in flight at the same time.
MaxStarts == 2
\* Deferred markStepCompleted updates that may be pending when the user acts.
MaxPending == MaxStarts

\* Results the log may hold before a handler that appends to it is taken.
MaxResults == 2

\* Entries in the chemical list of a drawn Equipment.
MaxEntries == 3

\* ------------------------------------------------------ program constants
HistoryCap == 10
InitialCumulativeVolume == 5000
CycleVolume == 20000
EndpointThreshold == 300
One == 1000

\* ------------------------------------------------------------- registries
EquipmentIds == {"burette", "conical_flask", "magnetic_stirrer"}

\* Variant of isContainer that also takes the magnetic stirrer for a container.
isContainerOrStirrer(id) ==
  id \in {"beaker", "flask", "burette", "erlenmeyer_flask", "conical_flask",
          "test_tubes", "beakers", "magnetic_stirrer"}

\* Equipment.isContainer: only containers bind an onDrop handler for chemicals.
isContainer(id) ==
  id \in {"beaker", "flask", "burette", "erlenmeyer_flask", "conical_flask",
          "test_tubes", "beakers"}

ContainerIds == {id \in EquipmentIds : isContainer(id)}

ChemicalIds == {"naoh", "hcl", "phenol"}

\* The chemical drops the user makes in this specification: the reagents of
\* the titration procedure, each onto the container the procedure names.
ProcedureDrops ==
  {<<"naoh", "burette">>, <<"hcl", "conical_flask">>, <<"phenol", "conical_flask">>}

\* experimentChemicals: colour and default volume of each reagent (the ids of
\* the three experiments are pairwise different).
experimentChemicals(id) ==
  CASE id = "naoh"   -> [color |-> "#8B5A9B", volume |-> 50000]
    [] id = "hcl"    -> [color |-> "#FFE135", volume |-> 25000]
    [] id = "phenol" -> [color |-> "#FFB6C1", volume |-> 10000]
    [] id = "salicylic_acid"   -> [color |-> "#F8F8FF", volume |-> 25000]
    [] id = "acetic_anhydride" -> [color |-> "#DDA0DD", volume |-> 50000]
    [] id = "phosphoric_acid"  -> [color |-> "#FFA500", volume |-> 10000]
    [] id = "distilled_water"  -> [color |-> "transparent", volume |-> 100000]
    [] id = "cocl2"    -> [color |-> "#FFB6C1", volume |-> 30000]
    [] id = "hcl_conc" -> [color |-> "#87CEEB", volume |-> 20000]
    [] id = "water"    -> [color |-> "transparent", volume |-> 100000]
    [] id = "ice"      -> [color |-> "#E0F6FF", volume |-> 50000]

\* The other two experiments the component serves.
OtherExperimentTitles == {"Aspirin Synthesis", "Chemical Equilibrium"}

\* The words the component looks for in the title, and where they occur.
TitleIncludes(title, word) ==
  \/ title = "Aspirin Synthesis" /\ word = "Aspirin"
  \/ title = "Acid-Base Titration" /\ word = "Acid-Base"
  \/ title = "Chemical Equilibrium" /\ word = "Equilibrium"

\* The ids of experimentEquipment and of experimentChemicals for a title.
experimentEquipmentIds(title) ==
  IF TitleIncludes(title, "Aspirin")
    THEN {"erlenmeyer_flask", "thermometer", "graduated_cylinder", "water_bath"}
  ELSE IF TitleIncludes(title, "Acid-Base") THEN EquipmentIds
  ELSE IF TitleIncludes(title, "Equilibrium")
    THEN {"test_tubes", "beakers", "hot_water_bath", "ice_bath"}
  ELSE {}

experimentChemicalIds(title) ==
  IF TitleIncludes(title, "Aspirin")
    THEN {"salicylic_acid", "acetic_anhydride", "phosphoric_acid",
          "distilled_water"}
  ELSE IF TitleIncludes(title, "Acid-Base") THEN ChemicalIds
  ELSE IF TitleIncludes(title, "Equilibrium")
    THEN {"cocl2", "hcl_conc", "water", "ice"}
  ELSE {}

\* aspirinGuidedSteps: what each guided step waits for ("" when it names none).
aspirinGuidedSteps ==
  <<[requiredEquipment |-> "erlenmeyer_flask", requiredChemical |-> "",
     targetEquipment |-> ""],
    [requiredEquipment |-> "", requiredChemical |-> "salicylic_acid",
     targetEquipment |-> "erlenmeyer_flask"],
    [requiredEquipment |-> "", requiredChemical |-> "acetic_anhydride",
     targetEquipment |-> "erlenmeyer_flask"],
    [requiredEquipment |-> "", requiredChemical |-> "phosphoric_acid",
     targetEquipment |-> "erlenmeyer_flask"],
    [requiredEquipment |-> "water_bath", requiredChemical |-> "",
     targetEquipment |-> ""],
    [requiredEquipment |-> "", requiredChemical |-> "", targetEquipment |-> ""]>>

\* ------------------------------------------------------------------ state
VARIABLES
  equipmentPositions,        \* sequence of [id, chemicals]
  undoHistory,               \* sequence of earlier equipmentPositions
  results,                   \* result log: sequence of result titles
  measurements,              \* [volume, concentration, ph, molarity, moles, temperature]
  toastMessage,              \* the notification shown, "none" when null
  dropwiseAnimation,         \* [active, chemicalId, drops (number of drops shown)]
  isTitrating,
  isStirring,
  stirrerActive,
  titrationDropCount,
  titrationColorProgress,
  cumulativeVolume,
  cumulativeColorIntensity,
  completedSteps,
  hasCalculatedResult,
  showResultsPanel,
  pendingSteps,              \* setTimeout(..., 0) callbacks of markStepCompleted, FIFO
  animationLoops,            \* requestAnimationFrame continuations of animateColor
  settleTimers,              \* setTimeout(..., 1000) callbacks scheduled at progress 1
  dropTimers,                \* setInterval(..., 800) callbacks of startDropwiseAnimation
  lastEvent,                 \* what ran last: "init", a handler ("equipmentDrop",
                             \* "chemicalDrop", "start", "stop", "startStirring",
                             \* "stopStirring", "undo", "reset", "clearResults",
                             \* "trialAdded", "dropIgnored"), a callback ("frame",
                             \* "settle", "tick", "toast"), or "step1".."step6" when
                             \* the deferred update of that step ran and emitted its
                             \* completion toast and progress callbacks
  dropsDone,                 \* number of drops made so far (bounds the exploration)
  props,                     \* Equipment props: [chemicals, titrationColorProgress]
  rendered,                  \* what Equipment drew: [color, height]
  experimentTitle,           \* the experimentTitle prop
  currentGuidedStep          \* cursor of the Aspirin Synthesis guided steps

vars == <<equipmentPositions, undoHistory, results, measurements, toastMessage,
          dropwiseAnimation, isTitrating, isStirring, stirrerActive,
          titrationDropCount, titrationColorProgress, cumulativeVolume,
          cumulativeColorIntensity, completedSteps, hasCalculatedResult,
          showResultsPanel, pendingSteps, animationLoops, settleTimers,
          dropTimers, lastEvent, dropsDone, props, rendered, experimentTitle,
          currentGuidedStep>>

experimentVars == <<experimentTitle, currentGuidedStep>>

renderVars == <<props, rendered>>

InitialMeasurements ==
  [volume |-> 0, concentration |-> 0, ph |-> 7000, molarity |-> 0, moles |-> 0,
   temperature |-> 25]

NoDropwiseAnimation == [active |-> FALSE, chemicalId |-> "", drops |-> 0]

\* An Equipment with an empty chemical list that has not been drawn yet.
NoProps == [chemicals |-> <<>>, titrationColorProgress |-> 0]

NotRendered == [color |-> [text |-> "", rgb |-> <<>>], height |-> 0]

\* The state a VirtualLabApp starts in, whatever the experiment.
InitialState ==
  /\ equipmentPositions = <<>>
  /\ undoHistory = <<>>
  /\ results = <<>>
  /\ measurements = InitialMeasurements
  /\ toastMessage = "none"
  /\ dropwiseAnimation = NoDropwiseAnimation
  /\ isTitrating = FALSE
  /\ isStirring = FALSE
  /\ stirrerActive = FALSE
  /\ titrationDropCount = 0
  /\ titrationColorProgress = 0
  /\ cumulativeVolume = InitialCumulativeVolume
  /\ cumulativeColorIntensity = 0
  /\ completedSteps = {}
  /\ hasCalculatedResult = FALSE
  /\ showResultsPanel = FALSE
  /\ pendingSteps = <<>>
  /\ animationLoops = <<>>
  /\ settleTimers = <<>>
  /\ dropTimers = <<>>
  /\ lastEvent = "init"
  /\ dropsDone = 0
  /\ props = NoProps
  /\ rendered = NotRendered
  /\ currentGuidedStep = 1

Init == experimentTitle = "Acid-Base Titration" /\ InitialState

\* ---------------------------------------------------------------- helpers
RemoveAt(s, i) == SubSeq(s, 1, i - 1) \o SubSeq(s, i + 1, Len(s))

OnWorkbench(eqs, id) == \E i \in DOMAIN eqs : eqs[i].id = id

Instance(eqs, id) == eqs[CHOOSE i \in DOMAIN eqs : eqs[i].id = id]

HasChemical(chemicals, id) == \E j \in DOMAIN chemicals : chemicals[j].id = id

RECURSIVE SumAmounts(_)
SumAmounts(chemicals) ==
  IF chemicals = <<>> THEN 0
  ELSE Head(chemicals).amount + SumAmounts(Tail(chemicals))

\* Equipment.handleChemicalDrop passes `chemical.volume || 25`.
DroppedAmount(volume) == IF volume = 0 THEN 25000 ELSE volume

ChemicalEntry(chemicalId, amount) ==
  [id |-> chemicalId, color |-> experimentChemicals(chemicalId).color,
   amount |-> amount]

\* Variant of AppendChemical that adds the amount to an entry of the same
\* chemical when the list already holds one.
AppendChemicalMerged(eqs, equipmentId, entry) ==
  [i \in DOMAIN eqs |->
     IF eqs[i].id # equipmentId THEN eqs[i]
     ELSE IF \E k \in DOMAIN eqs[i].chemicals : eqs[i].chemicals[k].id = entry.id
       THEN [eqs[i] EXCEPT !.chemicals =
               [k \in DOMAIN @ |->
                  IF @[k].id = entry.id
                    THEN [@[k] EXCEPT !.amount = @ + entry.amount]
                    ELSE @[k]]]
     ELSE [eqs[i] EXCEPT !.chemicals = Append(@, entry)]]

\* prev.map(pos => pos.id === equipmentId ? {...pos, chemicals: [...pos.chemicals, entry]} : pos)
AppendChemical(eqs, equipmentId, entry) ==
  [i \in DOMAIN eqs |->
     IF eqs[i].id = equipmentId
       THEN [eqs[i] EXCEPT !.chemicals = Append(@, entry)]
       ELSE eqs[i]]

\* Variant of RetainedHistory that keeps the first 10 snapshots.
RetainedOldest(h) ==
  IF Len(h) > HistoryCap THEN SubSeq(h, 1, HistoryCap) ELSE h

\* saveStateToHistory: push the current equipment list, keep the last 10.
RetainedHistory(h) ==
  IF Len(h) > HistoryCap THEN SubSeq(h, Len(h) - HistoryCap + 1, Len(h)) ELSE h

\* Variant of saveStateToHistory that puts the snapshot in front of the
\* history.
saveStateToHistoryInFront ==
  RetainedHistory(<<equipmentPositions>> \o undoHistory)

saveStateToHistory == RetainedHistory(Append(undoHistory, equipmentPositions))

\* markStepCompleted(stepNumber, message) as seen through a closure whose
\* render had the completed set `captured`: the guard reads the captured set,
\* the update itself is deferred with setTimeout(..., 0).
\* Variant of IsAcidBase that takes every experiment for the titration.
IsAcidBaseAlways == TRUE

\* experimentTitle.includes("Acid-Base")
IsAcidBase == TitleIncludes(experimentTitle, "Acid-Base")

\* The Aspirin Synthesis guided step the cursor is on waits for this equipment
\* (aspirinGuidedSteps[currentGuidedStep - 1]?.requiredEquipment === id).
GuidedEquipmentStep(id) ==
  /\ TitleIncludes(experimentTitle, "Aspirin")
  /\ currentGuidedStep \in DOMAIN aspirinGuidedSteps
  /\ aspirinGuidedSteps[currentGuidedStep].requiredEquipment = id

\* ... or for this chemical in this equipment.
GuidedChemicalStep(chemicalId, equipmentId) ==
  /\ TitleIncludes(experimentTitle, "Aspirin")
  /\ currentGuidedStep \in DOMAIN aspirinGuidedSteps
  /\ aspirinGuidedSteps[currentGuidedStep].requiredChemical = chemicalId
  /\ aspirinGuidedSteps[currentGuidedStep].targetEquipment = equipmentId

markStepCompleted(pending, captured, stepNumber) ==
  IF IsAcidBase /\ stepNumber \notin captured
    THEN Append(pending, stepNumber)
    ELSE pending

StepToast(stepNumber) ==
  <<"step1", "step2", "step3", "step4", "step5", "step6">>[stepNumber]

StepEvent(stepNumber) == StepToast(stepNumber)

\* ------------------------------------------------- calculateChemicalProperties
\* 1000 * 10^(n/10) for n = 0..9, rounded: the thresholds of floor(10*log10(r)).
Pow10Tenths == <<1000, 1259, 1585, 1995, 2512, 3162, 3981, 5012, 6310, 7943>>

\* floor(10 * log10(t / a)) for t >= a > 0.
RECURSIVE Log10Tenths(_, _)
Log10Tenths(t, a) ==
  IF t >= 10 * a THEN 10 + Log10Tenths(t \div 10, a)
  ELSE CHOOSE n \in 0..9 :
         /\ t * 1000 >= a * Pow10Tenths[n + 1]
         /\ (n < 9 => t * 1000 < a * Pow10Tenths[n + 2])

Clamp(lo, hi, v) == IF v < lo THEN lo ELSE IF v > hi THEN hi ELSE v

\* The value of a JavaScript number that is NaN (0 / 0).
NaN == -999999

\* molarity, moles and pH of the most recent chemical in a mixture; the pH
\* is computed to one decimal.
calculateChemicalProperties(chemicalId, amount, totalVolume) ==
  LET concentration == IF chemicalId \in {"hcl", "naoh"} THEN 100 ELSE 0
      molarity ==
        IF totalVolume = 0 THEN NaN
        ELSE concentration * ((amount * 1000) \div totalVolume)
      pLog == 1000 + 100 * Log10Tenths(totalVolume, amount)
      ph ==
        IF chemicalId \notin {"hcl", "naoh"} THEN 7000
        ELSE IF totalVolume = 0 THEN NaN
        ELSE IF chemicalId = "hcl" THEN Clamp(0, 14000, pLog)
        ELSE Clamp(0, 14000, 14000 - pLog)
  IN [molarity |-> molarity,
      moles |-> IF concentration = 0 THEN 0 ELSE amount,
      ph |-> ph]

\* ----------------------------------------------------------- handleReaction
ReactionFires(chemicals) ==
  HasChemical(chemicals, "hcl") /\ HasChemical(chemicals, "naoh")

ReactionResult(chemicals, equipmentId) ==
  [type |-> "reaction",
   title |->
     IF equipmentId = "conical_flask"
       THEN IF HasChemical(chemicals, "phenol")
              THEN "Titration with Indicator in Conical Flask"
              ELSE "Neutralization in Conical Flask"
       ELSE "Acid-Indicator Interaction Detected"]

\* ------------------------------------------------------ handleEquipmentDrop
\* Variant of PlaceEquipment that adds an instance without looking for one.
PlaceEquipmentAgain(eqs, id) == Append(eqs, [id |-> id, chemicals |-> <<>>])

\* The functional update of the equipment list: an existing instance is only
\* moved (its chemicals kept), otherwise a new empty instance is added.
PlaceEquipment(eqs, id) ==
  IF OnWorkbench(eqs, id) THEN eqs
  ELSE Append(eqs, [id |-> id, chemicals |-> <<>>])

\* The handler with the functional update of the equipment list having
\* returned `placed`.
EquipmentDrop(id, placed) ==
  /\ dropsDone < MaxDrops
  /\ dropsDone' = dropsDone + 1
  /\ Len(pendingSteps) < MaxPending
  /\ undoHistory' = saveStateToHistory
  /\ equipmentPositions' = placed
  /\ pendingSteps' =
       IF ~OnWorkbench(equipmentPositions, id) /\ IsAcidBase /\ id = "burette"
         THEN markStepCompleted(pendingSteps, completedSteps, 1)
         ELSE pendingSteps
  /\ IF ~OnWorkbench(equipmentPositions, id) /\ GuidedEquipmentStep(id)
       THEN /\ currentGuidedStep' = currentGuidedStep + 1
            /\ toastMessage' = "guidedStepCompleted"
       ELSE UNCHANGED <<currentGuidedStep, toastMessage>>
  /\ UNCHANGED renderVars
  /\ UNCHANGED experimentTitle
  /\ lastEvent' = "equipmentDrop"
  /\ UNCHANGED <<results, measurements, dropwiseAnimation,
                 isTitrating, isStirring, stirrerActive, titrationDropCount,
                 titrationColorProgress, cumulativeVolume,
                 cumulativeColorIntensity, completedSteps, hasCalculatedResult,
                 showResultsPanel, animationLoops, settleTimers, dropTimers>>

\* The handler with the drop coordinates left out of the instances.
handleEquipmentDrop(id) ==
  EquipmentDrop(id, PlaceEquipment(equipmentPositions, id))

\* ------------------------------------- handleEquipmentDrop: the coordinates
\* The bounds the handler keeps equipment within.
MinX == 60
MaxX == 800
MinY == 60
MaxY == 450

\* Variant of clampX that leaves the coordinate as it is.
unclampedX(v) == v

\* Math.max(minX, Math.min(maxX, v)) and the same for y.
clampX(v) == Clamp(MinX, MaxX, v)

clampY(v) == Clamp(MinY, MaxY, v)

\* Math.sqrt((x1 - x2)^2 + (y1 - y2)^2) < distance
NearerThan(x1, y1, x2, y2, distance) ==
  (x1 - x2) * (x1 - x2) + (y1 - y2) * (y1 - y2) < distance * distance

Abs(v) == IF v < 0 THEN -v ELSE v

titrationEquipment == {"burette", "conical_flask", "magnetic_stirrer"}

\* formationPositions[id].y: burette at the top, flask in the middle, stirrer
\* at the bottom.
formationY(id) ==
  CASE id = "burette" -> 120
    [] id = "conical_flask" -> 280
    [] id = "magnetic_stirrer" -> 420

\* The positions the overlap adjustment tries, in the order it tries them:
\* offsets 30, 60, ..., 150, six positions each.
testPositions(finalX, finalY) ==
  [n \in 1..30 |->
     LET offset == 30 * ((n - 1) \div 6 + 1)
         k == (n - 1) % 6
     IN CASE k = 0 -> <<finalX + offset, finalY>>
          [] k = 1 -> <<finalX - offset, finalY>>
          [] k = 2 -> <<finalX, finalY + offset>>
          [] k = 3 -> <<finalX, finalY - offset>>
          [] k = 4 -> <<finalX + offset, finalY + offset>>
          [] k = 5 -> <<finalX - offset, finalY - offset>>]

\* The functional update of the equipment list with the coordinates: clamp,
\* snap to the titration formation (re-aligning the other titration
\* equipment), move away from overlapping equipment, then move the existing
\* instance or add a new one.
PlaceEquipmentAt(prev, id, x, y) ==
  LET existing == OnWorkbench(prev, id)
      clampedX == clampX(x)
      clampedY == clampY(y)
      inFormation == IsAcidBase /\ id \in titrationEquipment
      near == {i \in DOMAIN prev :
                 /\ prev[i].id \in titrationEquipment
                 /\ prev[i].id # id
                 /\ NearerThan(prev[i].x, prev[i].y, clampedX, clampedY, 180)}
      shouldSnapToFormation == near # {}
      formationCenterX ==
        IF shouldSnapToFormation
          THEN prev[CHOOSE i \in near : \A j \in near : i <= j].x
          ELSE clampedX
      inCenterArea == Abs(x - 450) < 150 /\ Abs(y - 250) < 200
      snap == inFormation /\ (shouldSnapToFormation \/ (~existing /\ inCenterArea))
      formationX == IF formationCenterX = 0 THEN 450 ELSE formationCenterX
      snappedX == IF snap THEN clampX(formationX) ELSE clampedX
      snappedY == IF snap THEN clampY(formationY(id)) ELSE clampedY
      updatedPositions ==
        IF snap
          THEN [i \in DOMAIN prev |->
                  IF prev[i].id \in titrationEquipment /\ prev[i].id # id
                    THEN [prev[i] EXCEPT !.x = clampX(formationX),
                                         !.y = clampY(formationY(prev[i].id))]
                    ELSE prev[i]]
          ELSE prev
      isOverlapping(newX, newY) ==
        \E i \in DOMAIN updatedPositions :
          LET pos == updatedPositions[i] IN
          /\ pos.id # id
          /\ ~(/\ IsAcidBase
               /\ pos.id \in titrationEquipment
               /\ id \in titrationEquipment)
          /\ NearerThan(pos.x, pos.y, newX, newY, 120)
      tests == testPositions(snappedX, snappedY)
      free == {n \in DOMAIN tests :
                 ~isOverlapping(clampX(tests[n][1]), clampY(tests[n][2]))}
      first == CHOOSE n \in free : \A m \in free : n <= m
      adjust == isOverlapping(snappedX, snappedY) /\ free # {}
      finalX == IF adjust THEN clampX(tests[first][1]) ELSE snappedX
      finalY == IF adjust THEN clampY(tests[first][2]) ELSE snappedY
  IN IF existing
       THEN [i \in DOMAIN updatedPositions |->
               IF updatedPositions[i].id = id
                 THEN [updatedPositions[i] EXCEPT !.x = finalX, !.y = finalY]
                 ELSE updatedPositions[i]]
       ELSE Append(updatedPositions,
                   [id |-> id, x |-> finalX, y |-> finalY, chemicals |-> <<>>])

\* The handler with the drop coordinates.
handleEquipmentDropAt(id, x, y) ==
  EquipmentDrop(id, PlaceEquipmentAt(equipmentPositions, id, x, y))

\* ------------------------------------------------------- handleChemicalDrop
\* The three special-cased pairs: the toast and the step trigger come before
\* the functional update and do not depend on the target being on the bench.
SpecialDrop(chemicalId, equipmentId) ==
  \/ chemicalId = "phenol" /\ equipmentId = "conical_flask"
  \/ chemicalId = "naoh" /\ equipmentId = "burette"
  \/ chemicalId = "phenol" /\ equipmentId = "burette"

SpecialDropToast(chemicalId, equipmentId) ==
  IF chemicalId = "phenol" /\ equipmentId = "conical_flask" THEN "addedIndicator"
  ELSE IF chemicalId = "naoh" THEN "filledBurette"
  ELSE "added"

SpecialDropStep(chemicalId, equipmentId) ==
  IF chemicalId = "phenol" /\ equipmentId = "conical_flask" THEN 3
  ELSE IF chemicalId = "naoh" THEN 1
  ELSE 0

handleChemicalDrop(chemicalId, equipmentId) ==
  LET amount == DroppedAmount(experimentChemicals(chemicalId).volume)
      entry == ChemicalEntry(chemicalId, amount)
      present == OnWorkbench(equipmentPositions, equipmentId)
      newChemicals ==
        Append(Instance(equipmentPositions, equipmentId).chemicals, entry)
      mixed == present /\ Len(newChemicals) >= 2
      reacts == mixed /\ ReactionFires(newChemicals)
      totalVolume == SumAmounts(newChemicals)
      calculations == calculateChemicalProperties(chemicalId, amount, totalVolume)
      guided == present /\ GuidedChemicalStep(chemicalId, equipmentId)
      afterStep2 ==
        IF /\ present /\ IsAcidBase
           /\ chemicalId = "hcl" /\ equipmentId = "conical_flask"
          THEN markStepCompleted(pendingSteps, completedSteps, 2)
          ELSE pendingSteps
      afterStep6 ==
        IF reacts /\ IsAcidBase /\ ~hasCalculatedResult
          THEN markStepCompleted(afterStep2, completedSteps, 6)
          ELSE afterStep2
  IN
  /\ dropsDone < MaxDrops
  /\ dropsDone' = dropsDone + 1
  /\ Len(pendingSteps) < MaxPending
  /\ (reacts => Len(results) < MaxResults)
  /\ undoHistory' = saveStateToHistory
  /\ equipmentPositions' = AppendChemical(equipmentPositions, equipmentId, entry)
  /\ IF SpecialDrop(chemicalId, equipmentId)
       THEN /\ toastMessage' = SpecialDropToast(chemicalId, equipmentId)
            /\ pendingSteps' =
                 IF SpecialDropStep(chemicalId, equipmentId) = 0
                   THEN pendingSteps
                   ELSE markStepCompleted(pendingSteps, completedSteps,
                                          SpecialDropStep(chemicalId, equipmentId))
            /\ UNCHANGED <<results, measurements, hasCalculatedResult,
                           currentGuidedStep>>
       ELSE /\ toastMessage' =
                 IF ~present THEN toastMessage
                 ELSE IF reacts /\ equipmentId = "conical_flask" THEN "reaction"
                 ELSE IF guided THEN "guidedStepCompleted"
                 ELSE "added"
            /\ currentGuidedStep' =
                 IF guided THEN currentGuidedStep + 1 ELSE currentGuidedStep
            /\ pendingSteps' = afterStep6
            /\ results' =
                 IF reacts
                   THEN Append(results, ReactionResult(newChemicals, equipmentId))
                   ELSE results
            /\ hasCalculatedResult' =
                 (hasCalculatedResult \/ (reacts /\ IsAcidBase))
            /\ measurements' =
                 IF mixed /\ (\/ IsAcidBase
                              \/ TitleIncludes(experimentTitle, "Equilibrium"))
                   THEN [measurements EXCEPT
                           !.volume = totalVolume,
                           !.concentration = calculations.molarity,
                           !.ph = calculations.ph,
                           !.molarity = calculations.molarity,
                           !.moles = calculations.moles]
                   ELSE measurements
  /\ UNCHANGED renderVars
  /\ UNCHANGED experimentTitle
  /\ lastEvent' = "chemicalDrop"
  /\ UNCHANGED <<dropwiseAnimation, isTitrating, isStirring, stirrerActive,
                 titrationDropCount, titrationColorProgress, cumulativeVolume,
                 cumulativeColorIntensity, completedSteps, showResultsPanel,
                 animationLoops, settleTimers, dropTimers>>

\* --------------------------------------- Equipment: chemical dropped on it
\* The equipment id WorkBench.handleDrop reads from a drag that carries a
\* chemical ("equipment", then "text/plain"): the chemical's drag source sets
\* neither, so the id is empty and onDrop is not called.
ChemicalDragEquipmentId == ""

\* Equipment binds onDrop (its handleChemicalDrop) only when isContainer; on
\* other equipment the drop reaches no handler but WorkBench.handleDrop.
EquipmentOnDrop(chemicalId, equipmentId) ==
  IF isContainer(equipmentId)
    THEN handleChemicalDrop(chemicalId, equipmentId)
    ELSE /\ ChemicalDragEquipmentId = ""
         /\ dropsDone < MaxDrops
         /\ dropsDone' = dropsDone + 1
         /\ UNCHANGED renderVars
         /\ UNCHANGED experimentVars
         /\ lastEvent' = "dropIgnored"
         /\ UNCHANGED <<equipmentPositions, undoHistory, results, measurements,
                        toastMessage, dropwiseAnimation, isTitrating, isStirring,
                        stirrerActive, titrationDropCount, titrationColorProgress,
                        cumulativeVolume, cumulativeColorIntensity,
                        completedSteps, hasCalculatedResult, showResultsPanel,
                        pendingSteps, animationLoops, settleTimers, dropTimers>>

\* ----------------------------------------------------- handleStartTitration
\* Variant of TitrationReady without the check for NaOH in the burette.
TitrationReadyWithoutTitrant ==
  /\ OnWorkbench(equipmentPositions, "burette")
  /\ OnWorkbench(equipmentPositions, "conical_flask")

TitrationReady ==
  /\ OnWorkbench(equipmentPositions, "burette")
  /\ OnWorkbench(equipmentPositions, "conical_flask")
  /\ HasChemical(Instance(equipmentPositions, "burette").chemicals, "naoh")

\* Variant of TitrantEntry that holds a tenth of the amount.
TitrantEntryTenth(amount) ==
  [id |-> "naoh", color |-> "transparent", amount |-> amount \div 10]

\* The entry handleStartTitration adds to the flask: colour "transparent", 1.0 mL.
TitrantEntry(amount) == [id |-> "naoh", color |-> "transparent", amount |-> amount]

\* The values of the render in which handleStartTitration was created, which
\* animateColor, its settle timeout and the drop interval keep reading.
\* `interrupted` records whether stopTitration ("stopped") or a reset ("reset")
\* came after the start ("no" when neither did).
\* Variant in which the callbacks read the value setIsTitrating(true) has set.
CapturedAfterUpdate == TRUE

CapturedIsTitrating == isTitrating

StartedLoop ==
  [k |-> 0,
   cumulativeVolume |-> cumulativeVolume,
   cumulativeColorIntensity |-> cumulativeColorIntensity,
   isTitrating |-> CapturedIsTitrating,
   completedSteps |-> completedSteps,
   interrupted |-> "no"]

StartedDropTimer ==
  [isTitrating |-> CapturedIsTitrating,
   titrationDropCount |-> titrationDropCount,
   interrupted |-> "no"]

\* The guard of the titration button: it calls handleStartTitration only in
\* a render whose isTitrating is false, and handleStopTitration otherwise.
StartButtonShown == ~isTitrating

handleStartTitration ==
  /\ StartButtonShown
  /\ IF ~(OnWorkbench(equipmentPositions, "burette")
          /\ OnWorkbench(equipmentPositions, "conical_flask"))
       THEN /\ toastMessage' = "warnPlaceEquipment"
            /\ UNCHANGED <<equipmentPositions, results, isTitrating, isStirring,
                           stirrerActive, titrationColorProgress, showResultsPanel,
                           pendingSteps, animationLoops, dropTimers>>
     ELSE IF ~TitrationReady
       THEN /\ toastMessage' = "warnAddNaOH"
            /\ UNCHANGED <<equipmentPositions, results, isTitrating, isStirring,
                           stirrerActive, titrationColorProgress, showResultsPanel,
                           pendingSteps, animationLoops, dropTimers>>
     ELSE /\ Len(animationLoops) + Len(settleTimers) < MaxStarts
          /\ Len(dropTimers) < MaxStarts
          /\ Len(results) < MaxResults
          /\ Len(pendingSteps) < MaxPending
          /\ isTitrating' = TRUE
          /\ showResultsPanel' = TRUE
          /\ pendingSteps' = markStepCompleted(pendingSteps, completedSteps, 4)
          /\ IF OnWorkbench(equipmentPositions, "magnetic_stirrer") /\ ~isStirring
               THEN isStirring' = TRUE /\ stirrerActive' = TRUE
               ELSE UNCHANGED <<isStirring, stirrerActive>>
          /\ equipmentPositions' =
               IF HasChemical(Instance(equipmentPositions, "conical_flask").chemicals,
                              "naoh")
                 THEN equipmentPositions
                 ELSE AppendChemical(equipmentPositions, "conical_flask",
                                     TitrantEntry(1000))
          /\ results' = Append(results, [type |-> "success",
                                         title |-> "Titration Analysis Started"])
          /\ toastMessage' = "analysisPanelOpened"
          /\ titrationColorProgress' = 0
          /\ animationLoops' = Append(animationLoops, StartedLoop)
          /\ dropTimers' = Append(dropTimers, StartedDropTimer)
  /\ UNCHANGED renderVars
  /\ UNCHANGED experimentVars
  /\ lastEvent' = "start"
  /\ UNCHANGED dropsDone
  /\ UNCHANGED <<undoHistory, measurements, dropwiseAnimation, titrationDropCount,
                 cumulativeVolume, cumulativeColorIntensity, completedSteps,
                 hasCalculatedResult, settleTimers>>

\* ------------------------------------------------------------- animateColor
\* easedProgress at progress k / Frames (cubic ease-in-out as written).
easedProgress(k) ==
  IF 2 * k < Frames
    THEN (2 * One * k * k) \div (Frames * Frames)
    ELSE One - (4 * One * (Frames - k) * (Frames - k) * (Frames - k))
               \div (Frames * Frames * Frames)

\* The NaOH amounts of the flask set to currentAmount.
SetTitrantAmount(eqs, currentAmount) ==
  [i \in DOMAIN eqs |->
     IF eqs[i].id = "conical_flask"
       THEN [eqs[i] EXCEPT !.chemicals =
               [j \in DOMAIN @ |->
                  IF @[j].id = "naoh" THEN [@[j] EXCEPT !.amount = currentAmount]
                  ELSE @[j]]]
       ELSE eqs[i]]

\* One requestAnimationFrame callback of loop i.
animateColor(i) ==
  LET loop == animationLoops[i]
      k == loop.k
      currentColorIntensity == loop.cumulativeColorIntensity + easedProgress(k)
      currentVolume == loop.cumulativeVolume + (CycleVolume * k) \div Frames
  IN
  /\ titrationColorProgress' = currentColorIntensity
  /\ measurements' =
       [measurements EXCEPT
          !.volume = currentVolume,
          !.ph = 6500 + (2800 * k) \div Frames,
          !.molarity = 100000 - (50000 * k) \div Frames,
          !.moles = currentVolume]
  /\ equipmentPositions' =
       SetTitrantAmount(equipmentPositions, 1000 + (2000 * k) \div Frames)
  /\ pendingSteps' =
       IF easedProgress(k) >= EndpointThreshold /\ 5 \notin loop.completedSteps
         THEN markStepCompleted(pendingSteps, loop.completedSteps, 5)
         ELSE pendingSteps
  /\ IF k >= Frames
       THEN /\ settleTimers' =
                 Append(settleTimers,
                        [currentVolume |-> currentVolume,
                         currentColorIntensity |-> currentColorIntensity,
                         cumulativeColorIntensity |-> loop.cumulativeColorIntensity,
                         isTitrating |-> loop.isTitrating,
                         interrupted |-> loop.interrupted])
            /\ animationLoops' = RemoveAt(animationLoops, i)
       ELSE /\ animationLoops' = [animationLoops EXCEPT ![i].k = k + 1]
            /\ UNCHANGED settleTimers
  /\ UNCHANGED renderVars
  /\ UNCHANGED experimentVars
  /\ lastEvent' = "frame"
  /\ UNCHANGED dropsDone
  /\ UNCHANGED <<undoHistory, results, toastMessage, dropwiseAnimation, isTitrating,
                 isStirring, stirrerActive, titrationDropCount, cumulativeVolume,
                 cumulativeColorIntensity, completedSteps, hasCalculatedResult,
                 showResultsPanel, dropTimers>>

\* The setTimeout(..., 1000) callback scheduled by the frame at progress 1.
settleTimeout(i) ==
  LET timer == settleTimers[i]
      over == timer.cumulativeColorIntensity > One
  IN
  /\ settleTimers' = RemoveAt(settleTimers, i)
  /\ IF timer.isTitrating
       THEN /\ cumulativeVolume' = timer.currentVolume
            /\ cumulativeColorIntensity' = timer.currentColorIntensity
            /\ isTitrating' = FALSE
            /\ dropwiseAnimation' = NoDropwiseAnimation
            /\ results' =
                 Append(results,
                        [type |-> IF over THEN "warning" ELSE "success",
                         title |-> IF over THEN "Over-Titration Detected"
                                   ELSE "Acid-Base Titration Cycle Complete"])
            /\ toastMessage' = "endpointReached"
       ELSE UNCHANGED <<cumulativeVolume, cumulativeColorIntensity, isTitrating,
                        dropwiseAnimation, results, toastMessage>>
  /\ UNCHANGED renderVars
  /\ UNCHANGED experimentVars
  /\ lastEvent' = "settle"
  /\ UNCHANGED dropsDone
  /\ UNCHANGED <<equipmentPositions, undoHistory, measurements, isStirring,
                 stirrerActive, titrationDropCount, titrationColorProgress,
                 completedSteps, hasCalculatedResult, showResultsPanel,
                 pendingSteps, animationLoops, dropTimers>>

\* --------------------------------------------------- startDropwiseAnimation
\* Every 10 drops 0.1 mL goes to the flask's NaOH, or a new entry is added.
AddTitrantDrop(eqs) ==
  [i \in DOMAIN eqs |->
     IF eqs[i].id = "conical_flask"
       THEN IF HasChemical(eqs[i].chemicals, "naoh")
              THEN [eqs[i] EXCEPT !.chemicals =
                      [j \in DOMAIN @ |->
                         IF @[j].id = "naoh"
                           THEN [@[j] EXCEPT !.amount = @ + 100]
                           ELSE @[j]]]
              ELSE [eqs[i] EXCEPT !.chemicals = Append(@, TitrantEntry(100))]
       ELSE eqs[i]]

\* One tick of the setInterval(..., 800) callback of drop timer i.  The
\* setTimeout(..., 1500) that takes the drop off the display again is not
\* modelled: dropwiseAnimation.drops counts the drops emitted.
dropTimerTick(i) ==
  LET timer == dropTimers[i] IN
  /\ IF ~timer.isTitrating
       THEN /\ dropTimers' = RemoveAt(dropTimers, i)      \* clearInterval
            /\ UNCHANGED <<dropwiseAnimation, titrationDropCount, equipmentPositions>>
       ELSE /\ dropwiseAnimation' =
                 [active |-> TRUE, chemicalId |-> "naoh",
                  drops |-> dropwiseAnimation.drops + 1]
            /\ titrationDropCount' = titrationDropCount + 1
            /\ equipmentPositions' =
                 IF timer.titrationDropCount % 10 = 0
                   THEN AddTitrantDrop(equipmentPositions)
                   ELSE equipmentPositions
            /\ UNCHANGED dropTimers
  /\ UNCHANGED renderVars
  /\ UNCHANGED experimentVars
  /\ lastEvent' = "tick"
  /\ UNCHANGED dropsDone
  /\ UNCHANGED <<undoHistory, results, measurements, toastMessage, isTitrating,
                 isStirring, stirrerActive, titrationColorProgress, cumulativeVolume,
                 cumulativeColorIntensity, completedSteps, hasCalculatedResult,
                 showResultsPanel, pendingSteps, animationLoops, settleTimers>>

\* ------------------------------------------------------ handleStopTitration
Interrupt(callbacks, how) ==
  [i \in DOMAIN callbacks |-> [callbacks[i] EXCEPT !.interrupted = how]]

\* Variant of handleStopTitration that discards the cumulative values.
handleStopTitrationDiscarding ==
  /\ ~StartButtonShown
  /\ isTitrating' = FALSE
  /\ cumulativeVolume' = 0
  /\ cumulativeColorIntensity' = 0
  /\ dropwiseAnimation' = NoDropwiseAnimation
  /\ IF isStirring
       THEN /\ isStirring' = FALSE
            /\ stirrerActive' = FALSE
            /\ toastMessage' = "stoppedWithStirring"
       ELSE /\ toastMessage' = "stopped"
            /\ UNCHANGED <<isStirring, stirrerActive>>
  \* no cancelAnimationFrame, clearTimeout or clearInterval is called
  /\ animationLoops' = Interrupt(animationLoops, "stopped")
  /\ settleTimers' = Interrupt(settleTimers, "stopped")
  /\ dropTimers' = Interrupt(dropTimers, "stopped")
  /\ UNCHANGED renderVars
  /\ UNCHANGED experimentVars
  /\ lastEvent' = "stop"
  /\ UNCHANGED dropsDone
  /\ UNCHANGED <<equipmentPositions, undoHistory, results, measurements,
                 titrationDropCount, titrationColorProgress,
                 completedSteps, hasCalculatedResult,
                 showResultsPanel, pendingSteps>>

handleStopTitration ==
  /\ ~StartButtonShown
  /\ isTitrating' = FALSE
  /\ dropwiseAnimation' = NoDropwiseAnimation
  /\ IF isStirring
       THEN /\ isStirring' = FALSE
            /\ stirrerActive' = FALSE
            /\ toastMessage' = "stoppedWithStirring"
       ELSE /\ toastMessage' = "stopped"
            /\ UNCHANGED <<isStirring, stirrerActive>>
  \* no cancelAnimationFrame, clearTimeout or clearInterval is called
  /\ animationLoops' = Interrupt(animationLoops, "stopped")
  /\ settleTimers' = Interrupt(settleTimers, "stopped")
  /\ dropTimers' = Interrupt(dropTimers, "stopped")
  /\ UNCHANGED renderVars
  /\ UNCHANGED experimentVars
  /\ lastEvent' = "stop"
  /\ UNCHANGED dropsDone
  /\ UNCHANGED <<equipmentPositions, undoHistory, results, measurements,
                 titrationDropCount, titrationColorProgress, cumulativeVolume,
                 cumulativeColorIntensity, completedSteps, hasCalculatedResult,
                 showResultsPanel, pendingSteps>>

\* ------------------------------------------- handleStartStirring / StopStirring
handleStartStirring ==
  /\ ~isStirring
  /\ IF OnWorkbench(equipmentPositions, "magnetic_stirrer")
        /\ OnWorkbench(equipmentPositions, "conical_flask")
       THEN /\ isStirring' = TRUE
            /\ stirrerActive' = TRUE
            /\ toastMessage' = "stirrerActivated"
       ELSE /\ toastMessage' = "warnPlaceStirrer"
            /\ UNCHANGED <<isStirring, stirrerActive>>
  /\ UNCHANGED renderVars
  /\ UNCHANGED experimentVars
  /\ lastEvent' = "startStirring"
  /\ UNCHANGED dropsDone
  /\ UNCHANGED <<equipmentPositions, undoHistory, results, measurements,
                 dropwiseAnimation, isTitrating, titrationDropCount,
                 titrationColorProgress, cumulativeVolume, cumulativeColorIntensity,
                 completedSteps, hasCalculatedResult, showResultsPanel, pendingSteps,
                 animationLoops, settleTimers, dropTimers>>

handleStopStirring ==
  /\ isStirring
  /\ isStirring' = FALSE
  /\ stirrerActive' = FALSE
  /\ toastMessage' = "stirringStopped"
  /\ UNCHANGED renderVars
  /\ UNCHANGED experimentVars
  /\ lastEvent' = "stopStirring"
  /\ UNCHANGED dropsDone
  /\ UNCHANGED <<equipmentPositions, undoHistory, results, measurements,
                 dropwiseAnimation, isTitrating, titrationDropCount,
                 titrationColorProgress, cumulativeVolume, cumulativeColorIntensity,
                 completedSteps, hasCalculatedResult, showResultsPanel, pendingSteps,
                 animationLoops, settleTimers, dropTimers>>

\* --------------------------------------------------------------- handleUndo
handleUndo ==
  /\ Len(undoHistory) > 0
  /\ equipmentPositions' = undoHistory[Len(undoHistory)]
  /\ undoHistory' = SubSeq(undoHistory, 1, Len(undoHistory) - 1)
  /\ toastMessage' = "undone"
  /\ UNCHANGED renderVars
  /\ UNCHANGED experimentVars
  /\ lastEvent' = "undo"
  /\ UNCHANGED dropsDone
  /\ UNCHANGED <<results, measurements, dropwiseAnimation, isTitrating, isStirring,
                 stirrerActive, titrationDropCount, titrationColorProgress,
                 cumulativeVolume, cumulativeColorIntensity, completedSteps,
                 hasCalculatedResult, showResultsPanel, pendingSteps,
                 animationLoops, settleTimers, dropTimers>>

\* --------------------------------------------------------- Controls onReset
\* Variant of the reset that leaves the completed-step set as it is.
ResetKeepingCompletedSteps == completedSteps

\* The completed-step set after the reset.
ResetCompletedSteps == {}

onReset ==
  /\ equipmentPositions' = <<>>
  /\ undoHistory' = <<>>
  /\ results' = <<>>
  /\ measurements' = InitialMeasurements
  /\ dropwiseAnimation' = NoDropwiseAnimation
  /\ isTitrating' = FALSE
  /\ isStirring' = FALSE
  /\ stirrerActive' = FALSE
  /\ titrationDropCount' = 0
  /\ titrationColorProgress' = 0
  /\ cumulativeVolume' = InitialCumulativeVolume
  /\ cumulativeColorIntensity' = 0
  /\ completedSteps' = ResetCompletedSteps
  /\ hasCalculatedResult' = FALSE
  /\ showResultsPanel' = FALSE
  /\ toastMessage' = "resetDone"
  \* pending timeouts, animation frames and intervals are not cancelled
  /\ animationLoops' = Interrupt(animationLoops, "reset")
  /\ settleTimers' = Interrupt(settleTimers, "reset")
  /\ dropTimers' = Interrupt(dropTimers, "reset")
  /\ UNCHANGED renderVars
  /\ currentGuidedStep' = 1
  /\ UNCHANGED experimentTitle
  /\ lastEvent' = "reset"
  /\ UNCHANGED dropsDone
  /\ UNCHANGED pendingSteps

\* ------------------------------------- handleClearResults / handleStepClick
handleClearResults ==
  /\ results' = <<>>
  /\ UNCHANGED renderVars
  /\ UNCHANGED experimentVars
  /\ lastEvent' = "clearResults"
  /\ UNCHANGED dropsDone
  /\ UNCHANGED <<equipmentPositions, undoHistory, measurements, toastMessage,
                 dropwiseAnimation, isTitrating, isStirring, stirrerActive,
                 titrationDropCount, titrationColorProgress, cumulativeVolume,
                 cumulativeColorIntensity, completedSteps, hasCalculatedResult,
                 showResultsPanel, pendingSteps, animationLoops, settleTimers,
                 dropTimers>>

\* Called by the results panel, which is drawn while the result log is not
\* empty.
handleTrialAdded ==
  /\ results # <<>>
  /\ Len(pendingSteps) < MaxPending
  /\ pendingSteps' =
       IF IsAcidBase
         THEN markStepCompleted(pendingSteps, completedSteps, 6)
         ELSE pendingSteps
  /\ UNCHANGED renderVars
  /\ UNCHANGED experimentVars
  /\ lastEvent' = "trialAdded"
  /\ UNCHANGED dropsDone
  /\ UNCHANGED <<equipmentPositions, undoHistory, results, measurements,
                 toastMessage, dropwiseAnimation, isTitrating, isStirring,
                 stirrerActive, titrationDropCount, titrationColorProgress,
                 cumulativeVolume, cumulativeColorIntensity, completedSteps,
                 hasCalculatedResult, showResultsPanel, animationLoops,
                 settleTimers, dropTimers>>

\* setCurrentStep(stepId): currentStep, the step the procedure panel shows as
\* current, is not part of this model; the handler writes nothing else.
handleStepClick == UNCHANGED vars

\* ------------------------------------------- deferred part of markStepCompleted
\* The setTimeout(..., 0) callback: the functional update adds the step, calls
\* onProgressUpdate / onStepProgressUpdate, and the toast is shown.
\* Variant of AddStep that starts from an empty set instead of a copy of prev.
AddStepToEmptySet(prev, stepNumber) == {stepNumber}

\* The updater of setCompletedSteps: a copy of prev with stepNumber added.
AddStep(prev, stepNumber) == prev \cup {stepNumber}

applyStepCompleted ==
  /\ pendingSteps # <<>>
  /\ completedSteps' = AddStep(completedSteps, Head(pendingSteps))
  /\ toastMessage' = StepToast(Head(pendingSteps))
  /\ UNCHANGED renderVars
  /\ UNCHANGED experimentVars
  /\ lastEvent' = StepEvent(Head(pendingSteps))
  /\ UNCHANGED dropsDone
  /\ pendingSteps' = Tail(pendingSteps)
  /\ UNCHANGED <<equipmentPositions, undoHistory, results, measurements,
                 dropwiseAnimation, isTitrating, isStirring, stirrerActive,
                 titrationDropCount, titrationColorProgress, cumulativeVolume,
                 cumulativeColorIntensity, hasCalculatedResult, showResultsPanel,
                 animationLoops, settleTimers, dropTimers>>

\* setTimeout(() => setToastMessage(null), ...): every toast schedules one.
toastExpires ==
  /\ toastMessage # "none"
  /\ toastMessage' = "none"
  /\ UNCHANGED renderVars
  /\ UNCHANGED experimentVars
  /\ lastEvent' = "toast"
  /\ UNCHANGED dropsDone
  /\ UNCHANGED <<equipmentPositions, undoHistory, results, measurements,
                 dropwiseAnimation, isTitrating, isStirring, stirrerActive,
                 titrationDropCount, titrationColorProgress, cumulativeVolume,
                 cumulativeColorIntensity, completedSteps, hasCalculatedResult,
                 showResultsPanel, pendingSteps, animationLoops, settleTimers,
                 dropTimers>>

\* ------------------------------------------------------------ specification
Bench ==
  \/ \E id \in EquipmentIds : handleEquipmentDrop(id)
  \/ \E drop \in ProcedureDrops : handleChemicalDrop(drop[1], drop[2])
  \/ handleStopTitration
  \/ handleStartStirring
  \/ handleStopStirring
  \/ handleUndo
  \/ onReset

ScheduledCallback ==
  \/ \E i \in DOMAIN animationLoops : animateColor(i)
  \/ \E i \in DOMAIN settleTimers : settleTimeout(i)
  \/ \E i \in DOMAIN dropTimers : dropTimerTick(i)
  \/ applyStepCompleted
  \/ toastExpires

\* Callbacks of an earlier handleStartTitration are still scheduled.
CycleInFlight ==
  animationLoops # <<>> \/ settleTimers # <<>> \/ dropTimers # <<>>

\* The user presses Start only after the callbacks of the earlier cycle ran.
Next ==
  \/ Bench
  \/ (~CycleInFlight /\ handleStartTitration)
  \/ ScheduledCallback

Spec == Init /\ [][Next]_vars

\* The user presses Start at any time the button shows it.
NextOverlap ==
  \/ Bench
  \/ handleStartTitration
  \/ ScheduledCallback

SpecOverlap == Init /\ [][NextOverlap]_vars

\* The whole bench: a chemical dropped on any equipment of the toolbar or the
\* workbench, and the results panel and procedure panel handlers.
BenchAll ==
  \/ \E id \in EquipmentIds : handleEquipmentDrop(id)
  \/ \E chemicalId \in ChemicalIds, equipmentId \in EquipmentIds :
       EquipmentOnDrop(chemicalId, equipmentId)
  \/ handleStopTitration
  \/ handleStartStirring
  \/ handleStopStirring
  \/ handleUndo
  \/ onReset
  \/ handleClearResults
  \/ handleStepClick

\* A setTimeout(..., 0) of markStepCompleted runs before the next user event,
\* animation frame or timer callback.
NextBench ==
  \/ (pendingSteps = <<>> /\ BenchAll)
  \/ (pendingSteps = <<>> /\ ~CycleInFlight /\ handleStartTitration)
  \/ (pendingSteps = <<>> /\ \E i \in DOMAIN animationLoops : animateColor(i))
  \/ (pendingSteps = <<>> /\ \E i \in DOMAIN settleTimers : settleTimeout(i))
  \/ (pendingSteps = <<>> /\ \E i \in DOMAIN dropTimers : dropTimerTick(i))
  \/ applyStepCompleted
  \/ toastExpires

SpecBench == Init /\ [][NextBench]_vars

\* The bench together with the results panel's trial callback.
NextPanel ==
  \/ NextBench
  \/ (pendingSteps = <<>> /\ handleTrialAdded)

SpecPanel == Init /\ [][NextPanel]_vars

\* ------------------------------------------------------ the prepared bench
\* The workbench after the preparation of the procedure: burette placed,
\* conical flask placed, the magnetic stirrer placed or not, NaOH dropped on
\* the burette.
SetUpBenches(withStirrer) ==
  LET b1 == PlaceEquipment(<<>>, "burette")
      b2 == PlaceEquipment(b1, "conical_flask")
      b3 == IF withStirrer THEN PlaceEquipment(b2, "magnetic_stirrer") ELSE b2
      b4 == AppendChemical(b3, "burette",
              ChemicalEntry("naoh",
                            DroppedAmount(experimentChemicals("naoh").volume)))
  IN IF withStirrer THEN <<<<>>, b1, b2, b3, b4>> ELSE <<<<>>, b1, b2, b4>>

\* The state those drops leave: step 1 was completed by the burette, every
\* drop pushed the list before it on the undo history.
InitSetUp ==
  \E withStirrer \in BOOLEAN :
    LET benches == SetUpBenches(withStirrer) IN
    /\ experimentTitle = "Acid-Base Titration"
    /\ equipmentPositions = benches[Len(benches)]
    /\ undoHistory = SubSeq(benches, 1, Len(benches) - 1)
    /\ dropsDone = Len(benches) - 1
    /\ completedSteps = {1}
    /\ toastMessage = "filledBurette"
    /\ lastEvent = "chemicalDrop"
    /\ results = <<>>
    /\ measurements = InitialMeasurements
    /\ dropwiseAnimation = NoDropwiseAnimation
    /\ isTitrating = FALSE
    /\ isStirring = FALSE
    /\ stirrerActive = FALSE
    /\ titrationDropCount = 0
    /\ titrationColorProgress = 0
    /\ cumulativeVolume = InitialCumulativeVolume
    /\ cumulativeColorIntensity = 0
    /\ hasCalculatedResult = FALSE
    /\ showResultsPanel = FALSE
    /\ pendingSteps = <<>>
    /\ animationLoops = <<>>
    /\ settleTimers = <<>>
    /\ dropTimers = <<>>
    /\ props = NoProps
    /\ rendered = NotRendered
    /\ currentGuidedStep = 1

\* The controls and the callbacks, with no further drop on the bench.
NextSetUp ==
  \/ handleStopTitration
  \/ handleStartStirring
  \/ handleStopStirring
  \/ handleUndo
  \/ onReset
  \/ (~CycleInFlight /\ handleStartTitration)
  \/ ScheduledCallback

SpecSetUp == InitSetUp /\ [][NextSetUp]_vars

\* ------------------------------------------------------ the other experiments
\* WorkBench.handleDrop passes on whatever text a drag carries, so an id that
\* is not in the experiment's equipment list can reach handleEquipmentDrop.
DraggedTexts == {"burette"}

InitOther == experimentTitle \in OtherExperimentTitles /\ InitialState

\* What the page offers for Aspirin Synthesis and Chemical Equilibrium: the
\* titration and stirring controls are not rendered, and the results panel is
\* rendered only while there are results.
NextOther ==
  \/ \E id \in experimentEquipmentIds(experimentTitle) \cup DraggedTexts :
       handleEquipmentDrop(id)
  \/ \E chemicalId \in experimentChemicalIds(experimentTitle),
        equipmentId \in experimentEquipmentIds(experimentTitle) :
       EquipmentOnDrop(chemicalId, equipmentId)
  \/ handleUndo
  \/ onReset
  \/ handleStepClick
  \/ toastExpires

SpecOther == InitOther /\ [][NextOther]_vars

\* ------------------------------------------- the Aspirin Synthesis procedure
\* The workbench after each of the first five guided steps, done as the hints
\* say: Erlenmeyer flask placed, salicylic acid, acetic anhydride and
\* phosphoric acid dropped into it, water bath placed.
GuidedBenches ==
  LET Drop(eqs, chemicalId) ==
        AppendChemical(eqs, "erlenmeyer_flask",
          ChemicalEntry(chemicalId,
                        DroppedAmount(experimentChemicals(chemicalId).volume)))
      b1 == PlaceEquipment(<<>>, "erlenmeyer_flask")
      b2 == Drop(b1, "salicylic_acid")
      b3 == Drop(b2, "acetic_anhydride")
      b4 == Drop(b3, "phosphoric_acid")
      b5 == PlaceEquipment(b4, "water_bath")
  IN <<<<>>, b1, b2, b3, b4, b5>>

\* The state those five steps leave; dropsDone counts the drops made from
\* here on.
InitGuided ==
  /\ experimentTitle = "Aspirin Synthesis"
  /\ equipmentPositions = GuidedBenches[Len(GuidedBenches)]
  /\ undoHistory = SubSeq(GuidedBenches, 1, Len(GuidedBenches) - 1)
  /\ currentGuidedStep = Len(GuidedBenches)
  /\ toastMessage = "guidedStepCompleted"
  /\ lastEvent = "equipmentDrop"
  /\ dropsDone = 0
  /\ results = <<>>
  /\ measurements = InitialMeasurements
  /\ dropwiseAnimation = NoDropwiseAnimation
  /\ isTitrating = FALSE
  /\ isStirring = FALSE
  /\ stirrerActive = FALSE
  /\ titrationDropCount = 0
  /\ titrationColorProgress = 0
  /\ cumulativeVolume = InitialCumulativeVolume
  /\ cumulativeColorIntensity = 0
  /\ completedSteps = {}
  /\ hasCalculatedResult = FALSE
  /\ showResultsPanel = FALSE
  /\ pendingSteps = <<>>
  /\ animationLoops = <<>>
  /\ settleTimers = <<>>
  /\ dropTimers = <<>>
  /\ props = NoProps
  /\ rendered = NotRendered

\* The user actions of the Aspirin Synthesis page other than the reset.
NextGuided ==
  \/ \E id \in experimentEquipmentIds(experimentTitle) : handleEquipmentDrop(id)
  \/ \E chemicalId \in experimentChemicalIds(experimentTitle),
        equipmentId \in experimentEquipmentIds(experimentTitle) :
       EquipmentOnDrop(chemicalId, equipmentId)
  \/ handleUndo
  \/ toastExpires

\* The user keeps acting as long as an action is offered.
SpecGuided == InitGuided /\ [][NextGuided]_vars /\ WF_vars(NextGuided)

\* ------------------------------------------------- placements with positions
\* The drop points tried: above and left of the bounds, below and right of
\* them, the centre of the formation area, and a point beside the centre.
DropPoints == {<<0, 0>>, <<900, 500>>, <<450, 250>>, <<700, 250>>}

InitPlace ==
  /\ experimentTitle \in {"Acid-Base Titration", "Aspirin Synthesis"}
  /\ InitialState

\* Placements and moves at any of the drop points, chemical drops, undo, and
\* the callbacks they leave behind.
NextPlace ==
  \/ \E id \in experimentEquipmentIds(experimentTitle), p \in DropPoints :
       handleEquipmentDropAt(id, p[1], p[2])
  \/ \E chemicalId \in experimentChemicalIds(experimentTitle),
        equipmentId \in experimentEquipmentIds(experimentTitle) :
       EquipmentOnDrop(chemicalId, equipmentId)
  \/ handleUndo
  \/ applyStepCompleted
  \/ toastExpires

SpecPlace == InitPlace /\ [][NextPlace]_vars

\* ------------------------------------------------------ a long undo history
\* The workbench after the k-th of nine drops of the burette, placed at
\* (80, 100) and then moved to the right by 80 eight times: the lone burette
\* is neither snapped to a formation nor moved out of an overlap.
MovedBenches(k) ==
  IF k = 0
    THEN <<>>
    ELSE <<[id |-> "burette", x |-> clampX(80 * k), y |-> clampY(100),
            chemicals |-> <<>>]>>

\* The state those nine drops leave, step 1 completed by the placement:
\* the history is one snapshot short of its cap.  dropsDone counts the drops
\* made from here on.
InitHistory ==
  /\ experimentTitle = "Acid-Base Titration"
  /\ equipmentPositions = MovedBenches(HistoryCap - 1)
  /\ undoHistory = [k \in 1..(HistoryCap - 1) |-> MovedBenches(k - 1)]
  /\ completedSteps = {1}
  /\ lastEvent = "equipmentDrop"
  /\ dropsDone = 0
  /\ results = <<>>
  /\ measurements = InitialMeasurements
  /\ toastMessage = "none"
  /\ dropwiseAnimation = NoDropwiseAnimation
  /\ isTitrating = FALSE
  /\ isStirring = FALSE
  /\ stirrerActive = FALSE
  /\ titrationDropCount = 0
  /\ titrationColorProgress = 0
  /\ cumulativeVolume = InitialCumulativeVolume
  /\ cumulativeColorIntensity = 0
  /\ hasCalculatedResult = FALSE
  /\ showResultsPanel = FALSE
  /\ pendingSteps = <<>>
  /\ animationLoops = <<>>
  /\ settleTimers = <<>>
  /\ dropTimers = <<>>
  /\ props = NoProps
  /\ rendered = NotRendered
  /\ currentGuidedStep = 1

\* Further drops and undo from there: placements and moves into the corner
\* and into the formation area, chemical drops, undo, and the callbacks they
\* leave behind.
NextHistory ==
  \/ \E id \in experimentEquipmentIds(experimentTitle),
        p \in {<<0, 0>>, <<450, 250>>} :
       handleEquipmentDropAt(id, p[1], p[2])
  \/ \E chemicalId \in experimentChemicalIds(experimentTitle),
        equipmentId \in experimentEquipmentIds(experimentTitle) :
       EquipmentOnDrop(chemicalId, equipmentId)
  \/ handleUndo
  \/ applyStepCompleted
  \/ toastExpires

SpecHistory == InitHistory /\ [][NextHistory]_vars

\* ------------------------------------------------------ Equipment rendering
\* The characters of the colour strings that occur in chemical entries.
Chars(color) ==
  CASE color = "#8B5A9B" -> <<"#", "8", "B", "5", "A", "9", "B">>
    [] color = "#FFE135" -> <<"#", "F", "F", "E", "1", "3", "5">>
    [] color = "#FFB6C1" -> <<"#", "F", "F", "B", "6", "C", "1">>
    [] color = "#000000" -> <<"#", "0", "0", "0", "0", "0", "0">>
    [] color = "#FFFFFF" -> <<"#", "F", "F", "F", "F", "F", "F">>
    [] color = "transparent" ->
         <<"t", "r", "a", "n", "s", "p", "a", "r", "e", "n", "t">>

\* color.replace("#", ""): the first "#" is removed.
replaceHash(cs) ==
  IF \E i \in DOMAIN cs : cs[i] = "#"
    THEN RemoveAt(cs, CHOOSE i \in DOMAIN cs :
                        cs[i] = "#" /\ \A j \in 1..(i - 1) : cs[j] # "#")
    ELSE cs

\* hex.substr(start, length), start counted from 0.
substr(cs, start, length) ==
  SubSeq(cs, start + 1, IF start + length > Len(cs) THEN Len(cs) ELSE start + length)

UpperHexDigits == <<"0", "1", "2", "3", "4", "5", "6", "7", "8", "9",
                    "A", "B", "C", "D", "E", "F">>

LowerHexDigits == <<"0", "1", "2", "3", "4", "5", "6", "7", "8", "9",
                    "a", "b", "c", "d", "e", "f">>

\* The value of a hexadecimal digit, -1 for any other character.
HexDigitValue(c) ==
  IF \E i \in 1..16 : UpperHexDigits[i] = c
    THEN (CHOOSE i \in 1..16 : UpperHexDigits[i] = c) - 1
  ELSE IF \E i \in 1..16 : LowerHexDigits[i] = c
    THEN (CHOOSE i \in 1..16 : LowerHexDigits[i] = c) - 1
  ELSE -1

RECURSIVE parseHexPrefix(_, _, _)
parseHexPrefix(cs, value, anyDigit) ==
  IF cs = <<>> \/ HexDigitValue(Head(cs)) < 0
    THEN IF anyDigit THEN value ELSE NaN
    ELSE parseHexPrefix(Tail(cs), value * 16 + HexDigitValue(Head(cs)), TRUE)

\* parseInt(s, 16) of a sign-free string: the value of the longest prefix of
\* hexadecimal digits, NaN when the first character is not one.
parseInt16(cs) == parseHexPrefix(cs, 0, FALSE)

\* The value getMixedColor returns: a string taken as it is (text), or
\* `rgb(r, g, b)` (text "rgb") with the three numbers it prints.
ColorLiteral(text) == [text |-> text, rgb |-> <<>>]

ColorRgb(r, g, b) == [text |-> "rgb", rgb |-> <<r, g, b>>]

\* Math.round(numerator / denominator) for a non-negative quotient; NaN stays NaN.
RoundedQuotient(numerator, denominator) ==
  IF numerator = NaN THEN NaN
  ELSE (2 * numerator + denominator) \div (2 * denominator)

\* rVal, gVal or bVal of one entry: channel 0, 1 or 2 of its colour.
ChannelValue(chemical, channel) ==
  parseInt16(substr(replaceHash(Chars(chemical.color)), 2 * channel, 2))

RECURSIVE WeightedSum(_, _)
\* r, g or b after the forEach: NaN as soon as one entry's channel is NaN.
WeightedSum(chemicals, channel) ==
  IF chemicals = <<>> THEN 0
  ELSE LET rest == WeightedSum(Tail(chemicals), channel)
           value == ChannelValue(Head(chemicals), channel)
       IN  IF rest = NaN \/ value = NaN THEN NaN
           ELSE value * Head(chemicals).amount + rest

\* "Default color mixing": the amount-weighted average of the channels.
DefaultColorMixing(chemicals) ==
  LET totalAmount == SumAmounts(chemicals)
  IN  IF totalAmount = 0 THEN ColorLiteral("transparent")
      ELSE ColorRgb(RoundedQuotient(WeightedSum(chemicals, 0), totalAmount),
                    RoundedQuotient(WeightedSum(chemicals, 1), totalAmount),
                    RoundedQuotient(WeightedSum(chemicals, 2), totalAmount))

\* p * p * (3 - 2 * p) for p in thousandths, in thousandths.
smoothStep(p) == (p * p * (3 * One - 2 * p)) \div (One * One)

\* Math.round(start + (end - start) * eased), eased in thousandths.
Gradient(start, end, eased) ==
  (2 * (start * One + (end - start) * eased) + One) \div (2 * One)

\* The pink gradient of a mixture with hcl, naoh and phenol once
\* titrationColorProgress > 0: up to 1 from (255, 220, 230) to (255, 182, 193),
\* above 1 on to (199, 21, 133).
TitrationColor(progress) ==
  IF progress <= One
    THEN LET eased == smoothStep(progress)
         IN  ColorRgb(Gradient(255, 255, eased), Gradient(220, 182, eased),
                      Gradient(230, 193, eased))
    ELSE LET half == (progress - One) \div 2
             normalizedProgress == IF half > One THEN One ELSE half
             eased == smoothStep(normalizedProgress)
         IN  ColorRgb(Gradient(255, 199, eased), Gradient(182, 21, eased),
                      Gradient(193, 133, eased))

\* Variant of getMixedColor without the table of reaction colours.
getMixedColorByAverage(chemicals, progress) ==
  IF Len(chemicals) = 0 THEN ColorLiteral("transparent")
  ELSE IF Len(chemicals) = 1 THEN ColorLiteral(chemicals[1].color)
  ELSE DefaultColorMixing(chemicals)

getMixedColor(chemicals, progress) ==
  IF Len(chemicals) = 0 THEN ColorLiteral("transparent")
  ELSE IF Len(chemicals) = 1 THEN ColorLiteral(chemicals[1].color)
  ELSE IF HasChemical(chemicals, "hcl") /\ HasChemical(chemicals, "naoh")
    THEN IF HasChemical(chemicals, "phenol")
           THEN IF progress > 0 THEN TitrationColor(progress)
                ELSE ColorLiteral("#FFB6C1")
           ELSE ColorLiteral("#E8F5E8")
  ELSE IF HasChemical(chemicals, "phenol") /\ HasChemical(chemicals, "naoh")
    THEN ColorLiteral("#FF69B4")
  ELSE IF /\ HasChemical(chemicals, "hcl")
          /\ HasChemical(chemicals, "phenol")
          /\ ~HasChemical(chemicals, "naoh")
    THEN ColorLiteral("#ADD8E6")
  ELSE DefaultColorMixing(chemicals)

\* Variant of getSolutionHeight without the cap at 85.
getSolutionHeightUncapped(chemicals) == (SumAmounts(chemicals) * 85) \div 100

\* Math.min(85, (totalVolume / 100) * 85), in thousandths of a percent.
getSolutionHeight(chemicals) ==
  LET height == (SumAmounts(chemicals) * 85) \div 100
  IN  IF height > 85 * One THEN 85 * One ELSE height

\* Equipment draws its solution from its props.
Render ==
  /\ rendered' = [color |-> getMixedColor(props.chemicals,
                                          props.titrationColorProgress),
                  height |-> getSolutionHeight(props.chemicals)]
  /\ UNCHANGED <<props, equipmentPositions, undoHistory, results, measurements,
                 toastMessage, dropwiseAnimation, isTitrating, isStirring,
                 stirrerActive, titrationDropCount, titrationColorProgress,
                 cumulativeVolume, cumulativeColorIntensity, completedSteps,
                 hasCalculatedResult, showResultsPanel, pendingSteps,
                 animationLoops, settleTimers, dropTimers, lastEvent, dropsDone,
                 experimentTitle, currentGuidedStep>>

\* The entries a chemical list is drawn from: one drop of each chemical, the
\* titrant entry of handleStartTitration, and a black and a white entry.
RenderEntries ==
  {ChemicalEntry(id, DroppedAmount(experimentChemicals(id).volume)) :
     id \in ChemicalIds}
    \cup {TitrantEntry(One),
          [id |-> "black", color |-> "#000000", amount |-> 10 * One],
          [id |-> "white", color |-> "#FFFFFF", amount |-> 10 * One]}

Mixtures(length) ==
  UNION {[1..n -> RenderEntries] : n \in 0..length}

\* titrationColorProgress before the titration, within the first stage, at its
\* end, and within and past the second stage.
ProgressValues == {0, One \div 2, One, 2 * One, 3 * One, 4 * One}

InitRender ==
  /\ props \in [chemicals : Mixtures(MaxEntries),
                titrationColorProgress : ProgressValues]
  /\ rendered = NotRendered
  /\ equipmentPositions = <<>>
  /\ undoHistory = <<>>
  /\ results = <<>>
  /\ measurements = InitialMeasurements
  /\ toastMessage = "none"
  /\ dropwiseAnimation = NoDropwiseAnimation
  /\ isTitrating = FALSE
  /\ isStirring = FALSE
  /\ stirrerActive = FALSE
  /\ titrationDropCount = 0
  /\ titrationColorProgress = 0
  /\ cumulativeVolume = InitialCumulativeVolume
  /\ cumulativeColorIntensity = 0
  /\ completedSteps = {}
  /\ hasCalculatedResult = FALSE
  /\ showResultsPanel = FALSE
  /\ pendingSteps = <<>>
  /\ animationLoops = <<>>
  /\ settleTimers = <<>>
  /\ dropTimers = <<>>
  /\ lastEvent = "init"
  /\ dropsDone = 0
  /\ experimentTitle = "Acid-Base Titration"
  /\ currentGuidedStep = 1

NextRender == Render

SpecRender == InitRender /\ [][NextRender]_vars

\* --------------------------------------------------------------- properties
CycleTitles == {"Acid-Base Titration Cycle Complete", "Over-Titration Detected"}

\* The starts recorded in the result log since the last reset.
StartsInLog ==
  Cardinality({j \in DOMAIN results : results[j].title = "Titration Analysis Started"})

\* C1: when the animation of a cycle that was neither stopped nor reset has
\* reached progress 1 and its settle timeout runs, the cycle is closed: the
\* cumulative volume and colour intensity take the values of the final frame,
\* one cycle result is appended to the log, and the state returns to Idle.
C1_SettleClosesCycle ==
  [][\A i \in DOMAIN settleTimers :
       (settleTimers[i].interrupted = "no" /\ settleTimeout(i))
         => /\ cumulativeVolume' = settleTimers[i].currentVolume
            /\ cumulativeColorIntensity' = settleTimers[i].currentColorIntensity
            /\ Len(results') = Len(results) + 1
            /\ results'[Len(results')].title \in CycleTitles
            /\ ~isTitrating']_vars

\* C2: once stopTitration has run, no animation frame, settle timeout or drop
\* timer tick scheduled by the earlier start changes the measurements, the
\* titration colour progress, a chemical amount, the completed-step set or the
\* result log.
C2_StoppedCallbacksChangeNothing ==
  [][(/\ ~isTitrating
      /\ \/ \E i \in DOMAIN animationLoops :
              animationLoops[i].interrupted = "stopped" /\ animateColor(i)
         \/ \E i \in DOMAIN settleTimers :
              settleTimers[i].interrupted = "stopped" /\ settleTimeout(i)
         \/ \E i \in DOMAIN dropTimers :
              dropTimers[i].interrupted = "stopped" /\ dropTimerTick(i))
       => UNCHANGED <<measurements, titrationColorProgress, equipmentPositions,
                      completedSteps, results>>]_vars

\* C3: a start made while the animation loop of an earlier start is still
\* running starts no second loop, appends no result and does not reset the
\* titration colour progress; at most one animation loop runs at a time.
C3_StartWhileLoopRunsIsNoOp ==
  [][(animationLoops # <<>> /\ lastEvent' = "start")
       => /\ Len(animationLoops') <= 1
          /\ results' = results
          /\ titrationColorProgress' = titrationColorProgress]_vars

\* C4: within one run the endpoint step (step 5) takes effect once: after it
\* is in the completed-step set no further frame's endpoint mark emits the
\* step-5 notification and progress callbacks again.
C4_EndpointMarkedOnce ==
  [][5 \in completedSteps => lastEvent' # StepEvent(5)]_vars

\* C5: markStepCompleted is idempotent per step: for every step n that is
\* already in the completed-step set, a further call (also one made before the
\* deferred update of the first call ran) emits no notification and no progress
\* callback for n.
C5_MarkStepCompletedIdempotent ==
  [][\A n \in 1..6 : n \in completedSteps => lastEvent' # StepEvent(n)]_vars

\* C6: right after a reset, whatever came before, the cumulative volume is
\* 5.0 mL, the cumulative colour intensity is 0, the completed-step set is
\* empty, the state is Idle, no equipment is on the workbench and the result
\* log is empty.
C6_ResetState ==
  lastEvent = "reset"
    => /\ cumulativeVolume = InitialCumulativeVolume
       /\ cumulativeColorIntensity = 0
       /\ completedSteps = {}
       /\ ~isTitrating
       /\ equipmentPositions = <<>>
       /\ results = <<>>

\* A reset pressed while an animation loop and deferred step updates of the
\* run before it were still scheduled.
C6_Witness ==
  /\ lastEvent = "reset"
  /\ \E i \in DOMAIN animationLoops : animationLoops[i].interrupted = "reset"
  /\ pendingSteps # <<>>
  /\ dropsDone = MaxDrops

\* C7: full titration cycles accumulate: the settle timeout of the first
\* cycle after a reset takes the cumulative volume from 5.0 to 25.0 mL, that
\* of the second cycle from 25.0 to 45.0 mL with a cumulative colour intensity
\* above 1.0.
C7_CyclesAccumulate ==
  [][\A i \in DOMAIN settleTimers :
       (settleTimers[i].interrupted = "no" /\ settleTimeout(i))
         => /\ (StartsInLog = 1 /\ cumulativeVolume = InitialCumulativeVolume)
                 => cumulativeVolume' = InitialCumulativeVolume + CycleVolume
            /\ (StartsInLog = 2
                /\ cumulativeVolume = InitialCumulativeVolume + CycleVolume)
                 => /\ cumulativeVolume' = InitialCumulativeVolume + 2 * CycleVolume
                    /\ cumulativeColorIntensity' > One]_vars

\* The condition under which handleStartTitration returns early.
C9_NotReady ==
  \/ \A i \in DOMAIN equipmentPositions : equipmentPositions[i].id # "burette"
  \/ \A i \in DOMAIN equipmentPositions : equipmentPositions[i].id # "conical_flask"
  \/ \A i \in DOMAIN equipmentPositions :
       equipmentPositions[i].id = "burette"
         => \A j \in DOMAIN equipmentPositions[i].chemicals :
              equipmentPositions[i].chemicals[j].id # "naoh"

C9_Warnings == {"warnPlaceEquipment", "warnAddNaOH"}

\* C9: a start with the burette or the flask missing, or with no NaOH in the
\* burette, only shows a warning: the state stays Idle, no callback is
\* scheduled, and equipment, chemicals, measurements, results, stirring,
\* cumulative values and completed steps are unchanged.
C9_StartNotReadyOnlyWarns ==
  [][(C9_NotReady /\ lastEvent' = "start")
       => /\ toastMessage' \in C9_Warnings
          /\ ~isTitrating'
          /\ UNCHANGED <<equipmentPositions, results, measurements, isStirring,
                         stirrerActive, titrationColorProgress, titrationDropCount,
                         cumulativeVolume, cumulativeColorIntensity,
                         completedSteps, pendingSteps, animationLoops,
                         settleTimers, dropTimers, dropwiseAnimation,
                         showResultsPanel>>]_vars

\* Start pressed with burette and flask placed but no NaOH in the burette.
C9_Witness ==
  /\ lastEvent = "start"
  /\ toastMessage = "warnAddNaOH"
  /\ OnWorkbench(equipmentPositions, "burette")
  /\ OnWorkbench(equipmentPositions, "conical_flask")
  /\ ~isTitrating

\* C10: a drop timer tick that fires while the state is Idle emits no drop,
\* changes neither the drop count nor a chemical amount, and stops its timer.
C10_IdleTickIsNoOp ==
  [][(~isTitrating /\ lastEvent' = "tick")
       => /\ UNCHANGED <<dropwiseAnimation, titrationDropCount, equipmentPositions>>
          /\ Len(dropTimers') = Len(dropTimers) - 1]_vars

\* The tick of a started cycle's drop timer fired after stopTitration, with
\* the frames of that cycle still to come.
C10_Witness ==
  /\ lastEvent = "tick"
  /\ ~isTitrating
  /\ dropTimers = <<>>
  /\ \E i \in DOMAIN animationLoops : animationLoops[i].interrupted = "stopped"

\* C11: the set of completed steps only grows in every step other than a
\* reset: undo, stop, clearing the results and a step click remove no step.
C11_CompletedStepsOnlyGrow ==
  [][lastEvent' # "reset" => completedSteps \subseteq completedSteps']_vars

\* An undo has taken the burette off the workbench and step 1 is still completed.
C11_Witness ==
  /\ lastEvent = "undo"
  /\ ~OnWorkbench(equipmentPositions, "burette")
  /\ 1 \in completedSteps
  /\ results = <<>>

\* C12: every reachable state holds at most one instance per equipment id;
\* placing an id that is already on the workbench adds no instance and keeps
\* the chemicals of the one that is there; no step, undo included, yields a
\* duplicate.
C12_OneInstancePerId ==
  [][/\ \A i, j \in DOMAIN equipmentPositions' :
          equipmentPositions'[i].id = equipmentPositions'[j].id => i = j
     /\ \A id \in EquipmentIds :
          (OnWorkbench(equipmentPositions, id) /\ handleEquipmentDrop(id))
            => equipmentPositions' = equipmentPositions]_vars

\* The only instance on the workbench holds a chemical and was placed again.
C12_Witness ==
  /\ lastEvent = "equipmentDrop"
  /\ Len(equipmentPositions) = 1
  /\ equipmentPositions[1].chemicals # <<>>

\* C13: a stop sets the titration state to Idle and leaves cumulativeVolume
\* and cumulativeColorIntensity as they were, and the progress of the cycle it
\* interrupted is not added afterwards: the settle timeout of a stopped cycle
\* leaves them alone too.
C13_StopKeepsCumulativeValues ==
  [][/\ lastEvent' = "stop" =>
          /\ ~isTitrating'
          /\ UNCHANGED <<cumulativeVolume, cumulativeColorIntensity>>
     /\ \A i \in DOMAIN settleTimers :
          (settleTimers[i].interrupted = "stopped" /\ settleTimeout(i))
            => UNCHANGED <<cumulativeVolume, cumulativeColorIntensity>>]_vars

\* A cycle was stopped while its animation ran (its progress is shown), and its
\* settle timeout has fired since.
C13_Witness ==
  /\ lastEvent = "settle"
  /\ toastMessage = "stopped"
  /\ ~isTitrating
  /\ titrationColorProgress > 0
  /\ cumulativeVolume = InitialCumulativeVolume
  /\ cumulativeColorIntensity = 0

\* C14: a chemical drop whose equipment has no instance on the workbench is a
\* no-op on the simulation: the equipment list (no instance is created) and
\* every chemical list, the completed-step set, the result log and the
\* measurements stay as they were, and no step completion is scheduled.
C14_DropOnAbsentEquipmentIsNoOp ==
  [][\A chemicalId \in ChemicalIds, equipmentId \in ContainerIds :
       (/\ ~OnWorkbench(equipmentPositions, equipmentId)
        /\ handleChemicalDrop(chemicalId, equipmentId))
         => /\ equipmentPositions' = equipmentPositions
            /\ completedSteps' = completedSteps
            /\ pendingSteps' = pendingSteps
            /\ results' = results
            /\ measurements' = measurements]_vars

C17_ReactionIffAcidAndBase ==
  [][\A chemicalId \in ChemicalIds, equipmentId \in ContainerIds :
       (/\ OnWorkbench(equipmentPositions, equipmentId)
        /\ handleChemicalDrop(chemicalId, equipmentId))
         => LET after == Instance(equipmentPositions', equipmentId).chemicals
            IN  (/\ Len(results') = Len(results) + 1
                 /\ results'[Len(results')].type = "reaction")
                <=> (/\ Len(after) >= 2
                     /\ \E i \in DOMAIN after : after[i].id = "hcl"
                     /\ \E i \in DOMAIN after : after[i].id = "naoh")]_vars

\* The ids of the entries of the drawn chemical list.
RenderedIds == {props.chemicals[i].id : i \in DOMAIN props.chemicals}

\* C18: once drawn, the colour follows the priority table before any
\* averaging: an empty list gives transparent; exactly one entry gives that
\* entry's own colour; ids {hcl, naoh, phenol} at titrationColorProgress 0
\* give exactly #FFB6C1; hcl and naoh without phenol give #E8F5E8; hcl and
\* phenol without naoh give #ADD8E6; and the weighted average is the result
\* only for a list that matches none of these entries.
C18_PriorityTable ==
  rendered # NotRendered =>
    LET chemicals == props.chemicals
        ids == RenderedIds
        two == Len(chemicals) >= 2
        pink == /\ two
                /\ ids = {"hcl", "naoh", "phenol"}
                /\ props.titrationColorProgress = 0
        green == two /\ {"hcl", "naoh"} \subseteq ids /\ "phenol" \notin ids
        blue == two /\ {"hcl", "phenol"} \subseteq ids /\ "naoh" \notin ids
    IN  /\ Len(chemicals) = 0 => rendered.color = ColorLiteral("transparent")
        /\ Len(chemicals) = 1 => rendered.color = ColorLiteral(chemicals[1].color)
        /\ pink => rendered.color = ColorLiteral("#FFB6C1")
        /\ green => rendered.color = ColorLiteral("#E8F5E8")
        /\ blue => rendered.color = ColorLiteral("#ADD8E6")
        /\ (rendered.color.text = "rgb"
              /\ rendered.color = DefaultColorMixing(chemicals))
             => ~(Len(chemicals) <= 1 \/ pink \/ green \/ blue)

\* A list of hcl, naoh and phenol drawn at progress 0.
C18_Witness ==
  /\ rendered # NotRendered
  /\ Len(props.chemicals) = 3
  /\ RenderedIds = {"hcl", "naoh", "phenol"}
  /\ props.titrationColorProgress = 0
  /\ rendered.color = ColorLiteral("#FFB6C1")

\* C19: for a drawn list of two or more entries that matches no reaction
\* colour, the result is rgb(r, g, b) where each component is the
\* amount-weighted average of the entries' components rounded to the nearest
\* integer, and lies between the smallest and the largest of that component
\* over the entries; a black and a white entry of amount 10 give
\* rgb(128, 128, 128).
C19_WeightedAverage ==
  LET chemicals == props.chemicals
      ids == RenderedIds
      total == SumAmounts(chemicals)
      Comp(i, k) == ChannelValue(chemicals[i], k)
      Sum(k) == WeightedSum(chemicals, k)
  IN
  (/\ rendered # NotRendered
   /\ Len(chemicals) >= 2
   /\ ~({"hcl", "naoh"} \subseteq ids)
   /\ ~({"phenol", "naoh"} \subseteq ids)
   /\ ~({"hcl", "phenol"} \subseteq ids))
    => /\ rendered.color.text = "rgb"
       /\ \A k \in 0..2 :
            LET c == rendered.color.rgb[k + 1]
            IN  /\ c \in 0..255
                /\ 2 * c * total - total <= 2 * Sum(k)
                /\ 2 * Sum(k) < 2 * c * total + total
                /\ \E i \in DOMAIN chemicals : Comp(i, k) # NaN /\ Comp(i, k) <= c
                /\ \E i \in DOMAIN chemicals : Comp(i, k) # NaN /\ c <= Comp(i, k)
       /\ (Len(chemicals) = 2 /\ ids = {"black", "white"})
            => rendered.color.rgb = <<128, 128, 128>>

\* C20: the drawn solution height is min(85, totalVolume / 100 * 85) percent:
\* never above 85, exactly 85 for a total volume of 100 mL or more, and not
\* below the height of any list with a smaller or equal total volume.
C20_SolutionHeight ==
  rendered # NotRendered =>
    LET total == SumAmounts(props.chemicals)
        linear == (total * 85) \div 100
    IN  /\ rendered.height = IF linear < 85 * One THEN linear ELSE 85 * One
        /\ rendered.height <= 85 * One
        /\ total >= 100 * One => rendered.height = 85 * One
        /\ \A smaller \in Mixtures(MaxEntries - 1) :
             SumAmounts(smaller) <= total
               => getSolutionHeight(smaller) <= rendered.height

\* A list of more than 100 mL (three drops of NaOH) drawn at the cap.
C20_Witness ==
  /\ rendered # NotRendered
  /\ SumAmounts(props.chemicals) = 150 * One
  /\ rendered.height = 85 * One

\* The entries of pendingSteps' that the step has added behind pendingSteps.
ScheduledSteps ==
  {pendingSteps'[i] : i \in (Len(pendingSteps) + 1)..Len(pendingSteps')}

\* The trigger of step n happens in this step: the burette comes onto the
\* workbench (1), the conical flask on the workbench receives hcl (2) or
\* phenol (3), a titration is started (4), an animation frame is at or past
\* the endpoint threshold (5), a reaction result or a trial is recorded (6).
StepTrigger(n) ==
  LET FlaskReceives(chemicalId) ==
        /\ lastEvent' = "chemicalDrop"
        /\ OnWorkbench(equipmentPositions, "conical_flask")
        /\ LET before == Instance(equipmentPositions, "conical_flask").chemicals
               after == Instance(equipmentPositions', "conical_flask").chemicals
           IN  /\ Len(after) = Len(before) + 1
               /\ after[Len(after)].id = chemicalId
  IN
  CASE n = 1 -> /\ ~OnWorkbench(equipmentPositions, "burette")
                /\ OnWorkbench(equipmentPositions', "burette")
    [] n = 2 -> FlaskReceives("hcl")
    [] n = 3 -> FlaskReceives("phenol")
    [] n = 4 -> lastEvent' = "start" /\ Len(animationLoops') > Len(animationLoops)
    [] n = 5 -> /\ lastEvent' = "frame"
                /\ titrationColorProgress' >= EndpointThreshold
    [] n = 6 -> \/ lastEvent' = "trialAdded"
                \/ /\ Len(results') = Len(results) + 1
                   /\ results'[Len(results')].type = "reaction"

\* C21: the trigger-to-step mapping is fixed: a step is scheduled for
\* completion only in a step in which its own trigger happens, a number
\* enters the completed set only as the scheduled step that is applied, and
\* the set never holds a number outside 1..6.
C21_StepsOnlyByOwnTrigger ==
  [][/\ \A n \in ScheduledSteps : n \in 1..6 /\ StepTrigger(n)
     /\ \A n \in completedSteps' \ completedSteps :
          pendingSteps # <<>> /\ n = Head(pendingSteps)
     /\ completedSteps' \subseteq 1..6]_vars

\* C22: in Aspirin Synthesis and Chemical Equilibrium the completed-step set
\* stays empty, markStepCompleted schedules nothing, and so its deferred
\* update never runs and never calls a progress callback.
StepEvents == {StepEvent(n) : n \in 1..6}

C22_OtherExperimentsCompleteNoStep ==
  experimentTitle \in OtherExperimentTitles =>
    /\ completedSteps = {}
    /\ pendingSteps = <<>>
    /\ lastEvent \notin StepEvents
    /\ toastMessage \notin {StepToast(n) : n \in 1..6}

\* A burette reached the workbench of another experiment (the trigger of
\* step 1), and an Aspirin Synthesis guided step advanced the cursor.
C22_Witness ==
  /\ experimentTitle = "Aspirin Synthesis"
  /\ OnWorkbench(equipmentPositions, "burette")
  /\ currentGuidedStep > 1

\* C23: a chemical dropped on a container that is on the workbench puts
\* exactly one new entry (the chemical, the dropped amount) at the end of that
\* instance's list, whether or not the list already holds the chemical; the
\* earlier entries, the other instances and the order of instances stay.
C23_DropAppendsOneEntry ==
  [][\A chemicalId \in ChemicalIds, equipmentId \in ContainerIds :
       (/\ OnWorkbench(equipmentPositions, equipmentId)
        /\ handleChemicalDrop(chemicalId, equipmentId))
       => /\ Len(equipmentPositions') = Len(equipmentPositions)
          /\ \A i \in DOMAIN equipmentPositions :
               LET old == equipmentPositions[i]
                   new == equipmentPositions'[i]
               IN /\ new.id = old.id
                  /\ IF old.id = equipmentId
                       THEN /\ Len(new.chemicals) = Len(old.chemicals) + 1
                            /\ SubSeq(new.chemicals, 1, Len(old.chemicals))
                                 = old.chemicals
                            /\ new.chemicals[Len(new.chemicals)].id = chemicalId
                            /\ new.chemicals[Len(new.chemicals)].amount =
                                 DroppedAmount(experimentChemicals(chemicalId).volume)
                       ELSE new.chemicals = old.chemicals]_vars

\* A list that received the same chemical twice holds it as two entries.
C23_Witness ==
  /\ lastEvent = "chemicalDrop"
  /\ \E i \in DOMAIN equipmentPositions :
       LET cs == equipmentPositions[i].chemicals
       IN Len(cs) = 2 /\ cs[1].id = cs[2].id

\* C24: the cycle result appended when a cycle closes is the over-titration
\* warning exactly when the cumulative colour intensity the close commits is
\* above 1.0; the settle timeout of the second of two full cycles appends
\* the warning.
C24_OverTitrationFlag ==
  [][/\ (/\ Len(results') = Len(results) + 1
         /\ results'[Len(results')].title \in CycleTitles)
        => LET record == results'[Len(results')]
           IN IF cumulativeColorIntensity' > One
                THEN /\ record.type = "warning"
                     /\ record.title = "Over-Titration Detected"
                ELSE /\ record.type = "success"
                     /\ record.title = "Acid-Base Titration Cycle Complete"
     /\ \A i \in DOMAIN settleTimers :
          (/\ settleTimers[i].interrupted = "no"
           /\ StartsInLog = 2
           /\ settleTimeout(i))
          => /\ Len(results') = Len(results) + 1
             /\ results'[Len(results')].type = "warning"
             /\ results'[Len(results')].title = "Over-Titration Detected"]_vars

\* C25: the cumulative volume is never below 5.0 mL and the cumulative colour
\* intensity never below 0; only a reset lowers either of them, and only a
\* settle timeout (the cycle close) or a reset changes them: equipment and
\* chemical drops, undo, stirring, start, stop, frames and drop ticks do not.
C25_CumulativeValuesPersist ==
  [][/\ cumulativeVolume >= 5000 /\ cumulativeVolume' >= 5000
     /\ cumulativeColorIntensity >= 0 /\ cumulativeColorIntensity' >= 0
     /\ lastEvent' # "reset"
          => /\ cumulativeVolume' >= cumulativeVolume
             /\ cumulativeColorIntensity' >= cumulativeColorIntensity
     /\ lastEvent' \notin {"reset", "settle"}
          => UNCHANGED <<cumulativeVolume, cumulativeColorIntensity>>]_vars

\* A second cycle was started after the first ran to its settle timeout and
\* was stopped, with chemicals dropped before: the values are still there.
C25_Witness ==
  /\ StartsInLog = 2
  /\ lastEvent = "stop"
  /\ cumulativeVolume = InitialCumulativeVolume
  /\ cumulativeColorIntensity = 0

\* C26: a start in state Idle with a NaOH-filled burette and a conical flask
\* on the workbench sets the state to Titrating, schedules step 4 unless it is
\* completed, appends exactly one Titration Analysis Started result, turns
\* stirring on when a magnetic stirrer is on the workbench and leaves it as it
\* was when none is, and gives the flask one NaOH entry of 1.0 mL at the end
\* of its list when it held none and no entry when it held NaOH; the other
\* instances stay as they were.
C26_StartEffects ==
  [][(~isTitrating /\ TitrationReady /\ handleStartTitration)
       => /\ isTitrating'
          /\ pendingSteps' =
               IF 4 \in completedSteps THEN pendingSteps
               ELSE Append(pendingSteps, 4)
          /\ Len(results') = Len(results) + 1
          /\ SubSeq(results', 1, Len(results)) = results
          /\ results'[Len(results')].title = "Titration Analysis Started"
          /\ IF OnWorkbench(equipmentPositions, "magnetic_stirrer")
               THEN isStirring' /\ stirrerActive'
               ELSE UNCHANGED <<isStirring, stirrerActive>>
          /\ Len(equipmentPositions') = Len(equipmentPositions)
          /\ \A i \in DOMAIN equipmentPositions :
               LET old == equipmentPositions[i]
                   new == equipmentPositions'[i]
               IN IF old.id = "conical_flask" /\ ~HasChemical(old.chemicals, "naoh")
                    THEN /\ new.id = old.id
                         /\ Len(new.chemicals) = Len(old.chemicals) + 1
                         /\ SubSeq(new.chemicals, 1, Len(old.chemicals))
                              = old.chemicals
                         /\ new.chemicals[Len(new.chemicals)].id = "naoh"
                         /\ new.chemicals[Len(new.chemicals)].amount = 1000
                    ELSE new = old]_vars

\* A start with the stirrer on the workbench and stirring off gave the flask
\* its NaOH entry and turned stirring on.
C26_Witness ==
  /\ lastEvent = "start"
  /\ isTitrating
  /\ isStirring
  /\ OnWorkbench(equipmentPositions, "magnetic_stirrer")
  /\ Len(results) = 1
  /\ HasChemical(Instance(equipmentPositions, "conical_flask").chemicals, "naoh")

\* C27: whenever the titration state is Titrating, a burette holding NaOH and
\* a conical flask are on the workbench.
C27_TitratingOnReadyBench == isTitrating => TitrationReady

\* C28: step 5 (endpoint identified) is in the completed set only if step 4
\* (titration started) is in it.
C28_EndpointOnlyAfterStart == 5 \in completedSteps => 4 \in completedSteps

\* The events that are no user action: animation frames, timers, deferred
\* step updates, toast expiry.
CallbackEvents == {"frame", "settle", "tick", "toast"} \cup StepEvents

\* C29: after a reset and before the next user action the state keeps its
\* reset values; stated for the first callback that runs after the reset: it
\* leaves the completed-step set empty, the measurements at volume 0, pH 7,
\* molarity 0, moles 0, the titration colour progress at 0 and the result log
\* empty.
C29_ResetValuesStay ==
  [][(lastEvent = "reset" /\ lastEvent' \in CallbackEvents)
       => /\ completedSteps' = {}
          /\ measurements'.volume = 0
          /\ measurements'.ph = 7000
          /\ measurements'.molarity = 0
          /\ measurements'.moles = 0
          /\ titrationColorProgress' = 0
          /\ results' = <<>>]_vars

\* The amount of NaOH in the conical flask of an equipment list.
FlaskTitrant(eqs) ==
  LET cs == Instance(eqs, "conical_flask").chemicals
      naoh == {j \in DOMAIN cs : cs[j].id = "naoh"}
  IN IF naoh = {} THEN 0 ELSE cs[CHOOSE j \in naoh : TRUE].amount

\* C30: while the state is Titrating, every tick of the drop timer of the
\* running cycle emits one drop and adds one to titrationDropCount, the tick
\* that makes the count a multiple of ten adds 0.1 mL to the NaOH of the
\* conical flask, and the timer stays scheduled.
C30_TickEmitsDrop ==
  [][\A i \in DOMAIN dropTimers :
       (/\ isTitrating
        /\ dropTimers[i].interrupted = "no"
        /\ dropTimerTick(i))
       => /\ dropwiseAnimation'.active
          /\ dropwiseAnimation'.drops = dropwiseAnimation.drops + 1
          /\ titrationDropCount' = titrationDropCount + 1
          /\ (/\ titrationDropCount' % 10 = 0
              /\ OnWorkbench(equipmentPositions, "conical_flask"))
               => FlaskTitrant(equipmentPositions')
                    = FlaskTitrant(equipmentPositions) + 100
          /\ dropTimers' = dropTimers]_vars

\* The total volume of the conical flask's mixture in an equipment list.
FlaskVolume(eqs) == SumAmounts(Instance(eqs, "conical_flask").chemicals)

\* C31: an animation frame never lowers the total volume of the conical
\* flask's mixture, whatever the flask held and whichever cycle the frame
\* belongs to.
C31_FramesOnlyAddLiquid ==
  [][(/\ lastEvent' = "frame"
      /\ OnWorkbench(equipmentPositions, "conical_flask")
      /\ OnWorkbench(equipmentPositions', "conical_flask"))
       => FlaskVolume(equipmentPositions') >= FlaskVolume(equipmentPositions)]_vars

\* The '#RRGGBB' strings getMixedColor can return: the reaction colours of its
\* table and the colours of the entries.
HexColors ==
  {"#FFB6C1", "#E8F5E8", "#FF69B4", "#ADD8E6"}
    \cup {e.color : e \in {x \in RenderEntries : x.color # "transparent"}}

\* C32: what getMixedColor returns for a drawn mixture is a well-formed
\* colour: "transparent", a hex colour, or rgb(r, g, b) with three integers
\* in 0..255, none of them NaN, also when an entry's colour is "transparent".
C32_WellFormedColor ==
  rendered # NotRendered
    => \/ rendered.color.text = "transparent"
       \/ rendered.color.text \in HexColors
       \/ /\ rendered.color.text = "rgb"
          /\ \A k \in 1..3 : /\ rendered.color.rgb[k] # NaN
                             /\ rendered.color.rgb[k] \in 0..255

\* C33: the Aspirin Synthesis guided procedure can be finished: a user who
\* keeps placing equipment, dropping chemicals and undoing brings the
\* guided-step cursor past the last guided step, to 7.
C33_GuidedProcedureFinishes == <>(currentGuidedStep = 7)

\* The cursor stays on the last guided step.
C33_CursorStaysOnLastStep == currentGuidedStep = 6

\* C34: every equipment instance on the workbench has 60 <= x <= 800 and
\* 60 <= y <= 450, whatever the drop coordinates were and whatever was
\* placed, moved, snapped, re-aligned, moved out of an overlap or undone.
C34_PositionsWithinBounds ==
  \A i \in DOMAIN equipmentPositions :
    /\ equipmentPositions[i].x \in 60..800
    /\ equipmentPositions[i].y \in 60..450

\* A drop right of and below the bounds snapped onto an instance at the right
\* edge and re-aligned it: burette and flask stand in formation at x = 800.
C34_Witness ==
  /\ lastEvent = "equipmentDrop"
  /\ OnWorkbench(equipmentPositions, "burette")
  /\ OnWorkbench(equipmentPositions, "conical_flask")
  /\ Instance(equipmentPositions, "burette").x = 800
  /\ Instance(equipmentPositions, "burette").y = 120
  /\ Instance(equipmentPositions, "conical_flask").x = 800
  /\ Instance(equipmentPositions, "conical_flask").y = 280

\* C35: undo is the inverse of the last drop on the equipment list only.  An
\* equipment placement or move, or a chemical drop, leaves the list it found
\* as the last snapshot of the history, and undo puts the last snapshot back
\* as the equipment list (instances, positions and chemical lists), so a drop
\* followed immediately by undo leaves the list as it was before the drop;
\* undo changes neither the completed steps nor the result log, the
\* measurements or the titration state.
C35_UndoRevertsLastDrop ==
  [][/\ (/\ dropsDone' = dropsDone + 1
         /\ lastEvent' \in {"equipmentDrop", "chemicalDrop"})
          => /\ Len(undoHistory') > 0
             /\ undoHistory'[Len(undoHistory')] = equipmentPositions
     /\ lastEvent' = "undo"
          => /\ Len(undoHistory) > 0
             /\ equipmentPositions' = undoHistory[Len(undoHistory)]
             /\ UNCHANGED <<completedSteps, results, measurements, isTitrating,
                            isStirring, titrationDropCount,
                            titrationColorProgress, cumulativeVolume,
                            cumulativeColorIntensity, hasCalculatedResult,
                            showResultsPanel>>]_vars

\* The burette was placed at (700, 250), which completed step 1, then moved to
\* the corner, and the move was undone: the burette is back at (700, 250) and
\* step 1 is still completed.
C35_Witness ==
  /\ lastEvent = "undo"
  /\ Len(undoHistory) = 1
  /\ Len(equipmentPositions) = 1
  /\ equipmentPositions[1].id = "burette"
  /\ equipmentPositions[1].x = 700
  /\ equipmentPositions[1].y = 250
  /\ completedSteps = {1}

\* C36: the undo history never holds more than 10 snapshots.  Every equipment
\* or chemical drop appends the list it found and, when the history was full,
\* drops the oldest snapshot, so the history holds the most recent pre-drop
\* lists in order; no undo happens with an empty history.
C36_HistoryKeepsLastTen ==
  [][/\ Len(undoHistory') <= 10
     /\ (/\ dropsDone' = dropsDone + 1
         /\ lastEvent' \in {"equipmentDrop", "chemicalDrop"})
          => undoHistory' = IF Len(undoHistory) < 10
                              THEN Append(undoHistory, equipmentPositions)
                              ELSE Append(Tail(undoHistory), equipmentPositions)
     /\ Len(undoHistory) = 0
          => /\ lastEvent' # "undo"
             /\ Len(undoHistory') = 0 => equipmentPositions' = equipmentPositions]_vars

\* Eleven drops were made: the history is full and its oldest snapshot is no
\* longer the empty workbench but the workbench after the first drop.
C36_Witness ==
  /\ Len(undoHistory) = 10
  /\ dropsDone = 2
  /\ lastEvent \in {"equipmentDrop", "chemicalDrop"}
  /\ undoHistory[1] = MovedBenches(1)
  /\ undoHistory[9] = MovedBenches(HistoryCap - 1)

====
